---- MODULE Spec2Model ----
(***************************************************************************)
(* Verification model of the aim-assist control pipeline:                  *)
(*   core/controller.py       AimController  (PD + smoothing + clamp)      *)
(*   core/target_selector.py  TargetSelector (exclusion + nearest box)     *)
(*   main.py                  AimAssistSystem (main loop, key listener)    *)
(*   utils/logger.py          Logger         (every N-th frame)            *)
(*   core/mouse_control.py    MouseController (int(x), int(round(dx)))     *)
(*                                                                         *)
(* Numbers.  The controller computes in Python floats, IEEE 754 doubles,   *)
(* and so does the model: a double is a sign, a mantissa of 53 bits and    *)
(* an exponent, and +, -, *, / and math.sqrt give the double nearest to    *)
(* the exact result, ties to the even mantissa, as the hardware does.      *)
(* 0.15 is the double 0.1499999999999999944..., 1 - 0.85 is                *)
(* 0.15000000000000002, and 0.35 - 0.1 is 0.24999999999999997.  "x ** 2"   *)
(* is pow of the C library, which is allowed to miss the nearest double    *)
(* where the exact square lies close to the middle of two doubles; there   *)
(* the model admits both, and keeps for each argument the one that was     *)
(* returned (libm), pow being a function.  Both zeros exist (0.0 and       *)
(* -0.0 are equal and print differently); infinities, NaNs and subnormal   *)
(* numbers are not modelled, no specification here comes near them.        *)
(*                                                                         *)
(* The selector and the mouse work on pixel coordinates.  These are        *)
(* fixed-point integers counting 1/Q pixel (Q = 100: 901.4 is 90140); the  *)
(* corners of a box count 2/Q, so that its centre has a value in 1/Q.      *)
(* The selector compares exact radicands, and where the doubles of the     *)
(* code could decide otherwise (coordinates that are no binary fractions)  *)
(* it takes the rounding as an input of the call.  Where the main loop     *)
(* hands a cursor position and the centre of a box to the controller, they *)
(* become the doubles the code computes.                                   *)
(***************************************************************************)
EXTENDS Integers, Sequences, FiniteSets, TLC

VARIABLES
    controller,   \* AimController instance: gains and prev_error/prev_output
    calls,        \* number of controller API calls made so far
    obs,          \* the last controller API call: arguments, path, locals,
                  \* return value, and the controller before it
    twin_ctl,     \* a second AimController instance, constructed when the
                  \* first was reset and called with the same arguments since
    libm,         \* pow(x, 2.0) of the C library, as far as it has been
                  \* asked for squares that can be either of two doubles
    selector,     \* TargetSelector instance: candidates and current_target
    sel_obs,      \* the last select call: arguments, return value, and
                  \* whether a target was stored before it; got: what a
                  \* getter called since has returned
    twin_sel,     \* a second TargetSelector instance, with its last select
    running,      \* AimAssistSystem.running
    aim_enabled,  \* AimAssistSystem.aim_enabled
    mouse,        \* the system mouse position (MouseController)
    pc_main,      \* where the main thread is in run() and shutdown()
    frame,        \* the local variables of the main loop's current iteration
                  \* and a record of the calls it has made: how many
                  \* select, compute and move_relative calls, with which
                  \* arguments; whether the user moved the mouse meanwhile
    pc_key,       \* where the keyboard listener thread is in on_press
    ticks,        \* main-loop iterations completed
    keys,         \* key presses delivered to on_press
    config,       \* AimAssistSystem.config: the 'capture' section and
                  \* overlay_enabled
    life,         \* the modules shutdown() closes (listener, capture, overlay,
                  \* logger), how often shutdown() was entered and how often
                  \* it returned, the KeyboardInterrupts raised, whether ESC
                  \* came in the middle of an iteration, and whether the
                  \* last iteration completed called compute ("compute"),
                  \* did not ("idle"), or no iteration has called it yet
                  \* ("none")
    first_pending, \* aim assist was switched on and no iteration has passed
                  \* the "if self.aim_enabled and target" test since
    logger,       \* Logger instance: enabled, log_interval, frame_count and
                  \* the entries appended so far
    sim           \* the locals of the simulation at the end of
                  \* core/controller.py: cursor, target, i, dx, dy, distance

ctlVars == <<controller, calls, obs, twin_ctl, libm>>
selVars == <<selector, sel_obs, twin_sel>>
sysVars == <<running, aim_enabled, mouse, pc_main, frame, pc_key, ticks, keys,
             config, life, first_pending, logger, sim>>
vars == <<controller, calls, obs, twin_ctl, libm, selector, sel_obs, twin_sel,
          running, aim_enabled, mouse, pc_main, frame, pc_key, ticks, keys,
          config, life, first_pending, logger, sim>>

----------------------------------------------------------------------------
(* Arithmetic.                                                             *)

Q == 100

Abs(x) == IF x < 0 THEN -x ELSE x

\* n / d for d > 0, rounded to the nearest integer, ties to even.
RoundDiv(n, d) ==
    LET q == n \div d
        r == n % d
    IN  IF 2 * r < d THEN q
        ELSE IF 2 * r > d THEN q + 1
        ELSE IF q % 2 = 0 THEN q ELSE q + 1

\* x ** 2 + y ** 2 of integers, exact
SumSq(x, y) == x * x + y * y

\* the element of a one-element set
Only(S) == CHOOSE x \in S : TRUE

\* F(v), with v computed once and kept, as a local variable of the code is
Let(v, F(_)) == F(v)

\* Wide integers.  The mantissa of a double has 53 bits and the exact
\* result of an operation on two of them more; a wide integer is the
\* sequence of its digits in base Base, lowest first, each in 0..Base-1,
\* closed by a digit -1 (worth -Base^n) when the number is negative, and
\* kept shortest: <<>> is 0, <<5>> is 5, <<Base - 5, -1>> is -5.
Bits == 14
Base == 2 ^ Bits

RECURSIVE Carried(_, _, _)
\* the digits of a[i] + a[i+1] * Base + ... + c, the a[j] being any integers
Carried(a, i, c) ==
    IF i > Len(a)
    THEN IF c = 0 THEN <<>>
         ELSE IF c = -1 THEN <<-1>>
         ELSE <<c % Base>> \o Carried(a, i, c \div Base)
    ELSE <<(a[i] + c) % Base>> \o Carried(a, i + 1, (a[i] + c) \div Base)

RECURSIVE Shortest(_)
\* the same number without the digits that carry nothing
Shortest(a) ==
    IF a = <<>> THEN a
    ELSE IF a[Len(a)] = 0 THEN Shortest(SubSeq(a, 1, Len(a) - 1))
    ELSE IF Len(a) >= 2 /\ a[Len(a)] = -1 /\ a[Len(a) - 1] = Base - 1
         THEN Shortest(SubSeq(a, 1, Len(a) - 2) \o <<-1>>)
    ELSE a

\* the wide integer of an integer
Wide(n) ==
    IF 0 <= n /\ n < Base THEN IF n = 0 THEN <<>> ELSE <<n>>
    ELSE Shortest(Carried(<<n>>, 1, 0))

Digit(a, i) == IF 1 <= i /\ i <= Len(a) THEN a[i] ELSE 0

Longer(a, b) == IF Len(a) > Len(b) THEN Len(a) ELSE Len(b)

\* a + b, a - b and -a
WAdd(a, b) ==
    Shortest(Carried([i \in 1..Longer(a, b) |-> Digit(a, i) + Digit(b, i)], 1, 0))
WSub(a, b) ==
    Shortest(Carried([i \in 1..Longer(a, b) |-> Digit(a, i) - Digit(b, i)], 1, 0))
WNeg(a) == Shortest(Carried([i \in 1..Len(a) |-> -a[i]], 1, 0))

\* the sign of a: -1, 0 or 1
WSign(a) == IF a = <<>> THEN 0 ELSE IF a[Len(a)] < 0 THEN -1 ELSE 1

WAbs(a) == IF WSign(a) < 0 THEN WNeg(a) ELSE a

RECURSIVE Conv(_, _, _, _)
\* the sum of a[j] * b[k + 1 - j] over j >= i
Conv(a, b, k, i) ==
    IF i > Len(a) \/ i > k THEN 0
    ELSE a[i] * Digit(b, k + 1 - i) + Conv(a, b, k, i + 1)

\* a * m for an integer m, |m| <= 100000
Times(a, m) == Shortest(Carried([i \in 1..Len(a) |-> a[i] * m], 1, 0))

\* half a digit: the digits of b >= 0 cut in two, b = low + HalfBase * high
HalfBase == 2 ^ (Bits \div 2)
LowHalves(b) == [i \in 1..Len(b) |-> b[i] % HalfBase]
HighHalves(b) == [i \in 1..Len(b) |-> b[i] \div HalfBase]

RECURSIVE ConvRange(_, _, _, _, _)
\* the sum of a[j] * b[k + 1 - j] over lo <= j <= hi, by halves
ConvRange(a, b, k, lo, hi) ==
    IF lo > hi THEN 0
    ELSE IF lo = hi THEN a[lo] * Digit(b, k + 1 - lo)
    ELSE ConvRange(a, b, k, lo, (lo + hi) \div 2)
             + ConvRange(a, b, k, (lo + hi) \div 2 + 1, hi)

\* a * b for half digits b[i] < HalfBase: the columns of the product
Columns(a, b) ==
    Shortest(Carried([k \in 1..(Len(a) + Len(b) - 1) |->
                         ConvRange(a, b, k, 1, Len(a))], 1, 0))

\* a * b for b >= 0, by the two halves of the digits of b
LongMul(a, b) ==
    WAdd(Columns(a, LowHalves(b)), Times(Columns(a, HighHalves(b)), HalfBase))

\* a * b: the digits of the product summed by columns where the columns
\* are short enough for their sums, and by half digits else
WMul(a, b) ==
    IF a = <<>> \/ b = <<>> THEN <<>>
    ELSE IF Len(a) <= 7 \/ Len(b) <= 7
    THEN IF Len(a) <= Len(b)
         THEN Shortest(Carried([k \in 1..(Len(a) + Len(b) - 1) |->
                                   Conv(a, b, k, 1)], 1, 0))
         ELSE Shortest(Carried([k \in 1..(Len(a) + Len(b) - 1) |->
                                   Conv(b, a, k, 1)], 1, 0))
    ELSE IF WSign(b) >= 0 THEN LongMul(a, b)
    ELSE WNeg(LongMul(a, WNeg(b)))

\* the number of bits of a digit d in 0..Base-1, and of a wide a >= 0
Width(d) == IF d = 0 THEN 0 ELSE CHOOSE k \in 1..Bits : 2 ^ (k - 1) <= d /\ d < 2 ^ k
BitLen(a) == IF a = <<>> THEN 0 ELSE Bits * (Len(a) - 1) + Width(a[Len(a)])

\* n * n of an integer n
Sq(n) == IF Abs(n) <= 46340 THEN Wide(n * n) ELSE WMul(Wide(n), Wide(n))

\* a * 2^k (k >= 0)
ShiftLeft(a, k) ==
    IF a = <<>> THEN a
    ELSE [i \in 1..(k \div Bits) |-> 0] \o Times(a, 2 ^ (k % Bits))

\* a \div 2^k for a >= 0 (k >= 0)
ShiftRight(a, k) ==
    LET skip == k \div Bits
        low == 2 ^ (k % Bits)
        high == Base \div low
    IN  IF skip >= Len(a) THEN <<>>
        ELSE Shortest([i \in 1..(Len(a) - skip) |->
                          (a[i + skip] \div low)
                              + (Digit(a, i + skip + 1) % low) * high])

\* a is odd
Odd(a) == a # <<>> /\ a[1] % 2 = 1

\* a < b, a <= b for wide integers
WLess(a, b) == WSign(WSub(a, b)) < 0
WLeq(a, b) == WSign(WSub(a, b)) <= 0

\* the integer of a wide integer 0 <= a < 2^30
WInt(a) == Digit(a, 1) + Base * Digit(a, 2) + Base * Base * Digit(a, 3)

RECURSIVE DivStep(_, _, _, _)
\* long division of n by d, the highest digit of d at least Base / 2:
\* <<quotient, remainder>> after the digits n[i], ..., n[1] were brought
\* down to the remainder rem of the digits above them.  The digit of the
\* quotient is estimated from the two highest digits of the running
\* remainder and lowered while the estimate is too large.
Lowered(cur, d, qhat) ==
    Let(WSub(cur, Times(d, qhat)), LAMBDA t :
        IF WSign(t) >= 0 THEN <<qhat, t>>
        ELSE Let(WAdd(t, d), LAMBDA u :
                 IF WSign(u) >= 0 THEN <<qhat - 1, u>>
                 ELSE <<qhat - 2, WAdd(u, d)>>))
DivStep(n, d, i, rem) ==
    IF i = 0 THEN <<<<>>, rem>>
    ELSE Let(Shortest(<<n[i]>> \o rem), LAMBDA cur :
         Let((Digit(cur, Len(d) + 1) * Base + Digit(cur, Len(d)))
                 \div d[Len(d)], LAMBDA est :
         Let(IF Len(cur) < Len(d) THEN <<0, cur>>
             ELSE Lowered(cur, d, IF est > Base - 1 THEN Base - 1 ELSE est),
             LAMBDA step :
         Let(DivStep(n, d, i - 1, step[2]), LAMBDA rest :
             <<rest[1] \o <<step[1]>>, rest[2]>>))))

\* <<n \div d, n % d>> for n >= 0 and d > 0
WDivMod(n, d) ==
    Let(Bits - Width(d[Len(d)]), LAMBDA sh :
    Let(ShiftLeft(n, sh), LAMBDA nn :
    Let(DivStep(nn, ShiftLeft(d, sh), Len(nn), <<>>), LAMBDA qr :
        <<Shortest(qr[1]), ShiftRight(qr[2], sh)>>)))

RECURSIVE ISqrt(_, _)
\* the integer square root of 0 <= t < 2^30 by Newton's iteration from
\* x >= sqrt(t)
ISqrt(t, x) ==
    Let((x + t \div x) \div 2, LAMBDA y : IF y >= x THEN x ELSE ISqrt(t, y))

\* <<s, r>> with s the integer square root of hi * Base^2 + d2 * Base + d1
\* and r what is left of it, for Base^2 / 4 <= hi < Base^2: the root of
\* hi extended by one digit, which the division of the remainder by
\* twice the root gives, one too large at most
Root2(hi, d2, d1) ==
    Let(ISqrt(hi, Base), LAMBDA s0 :
    Let((hi - s0 * s0) * Base + d2, LAMBDA num :
    Let(num \div (2 * s0), LAMBDA q :
    Let(s0 * Base + q, LAMBDA s :
    Let((num % (2 * s0)) * Base + d1 - q * q, LAMBDA r :
        IF r < 0 THEN <<s - 1, r + 2 * s - 1>> ELSE <<s, r>>)))))

\* <<s, exact>> with s the integer square root of the wide n of eight
\* digits, Base / 4 <= n[8], and exact whether s * s = n: the root of the
\* four high digits extended by two digits in the same way
WSqrt(n) ==
    Let(Root2(n[8] * Base + n[7], n[6], n[5]), LAMBDA top :
    Let(WDivMod(Shortest(<<n[3], n[4]>> \o Wide(top[2])), Wide(2 * top[1])),
        LAMBDA qu :
    Let(WAdd(ShiftLeft(Wide(top[1]), 2 * Bits), qu[1]), LAMBDA s :
    Let(WSub(Shortest(<<n[1], n[2]>> \o qu[2]), WMul(qu[1], qu[1])),
        LAMBDA r :
        IF WSign(r) < 0
        THEN <<WSub(s, <<1>>), WSub(WAdd(r, ShiftLeft(s, 1)), <<1>>) = <<>>>>
        ELSE <<s, r = <<>>>>))))

\* IEEE 754 binary64, the float of CPython.  A double is the record
\* [s, m, e] worth s * m * 2^e: s is 1 or -1, m a wide integer with
\* 2^52 <= m < 2^53, or <<>> with e = 0 for the two zeros 0.0 and -0.0.
\* Infinities, NaNs and subnormals are not modelled: no operation the
\* specifications reach leaves the range of normal doubles.
Prec == 53

Zero(s) == [s |-> s, m |-> <<>>, e |-> 0]

\* s * n * 2^e for a wide n >= 0, rounded to the nearest double, ties to
\* the even mantissa
RoundTo(s, n, e) ==
    IF n = <<>> THEN Zero(s)
    ELSE Let(BitLen(n) - Prec, LAMBDA k :
         IF k <= 0 THEN [s |-> s, m |-> ShiftLeft(n, -k), e |-> e + k]
         ELSE Let(ShiftRight(n, k), LAMBDA q :
              Let(WSign(WSub(ShiftLeft(WSub(n, ShiftLeft(q, k)), 1),
                             ShiftLeft(<<1>>, k))), LAMBDA cmp :
              Let(IF cmp > 0 \/ (cmp = 0 /\ Odd(q)) THEN WAdd(q, <<1>>)
                  ELSE q, LAMBDA r :
                  IF BitLen(r) > Prec
                  THEN [s |-> s, m |-> ShiftRight(r, 1), e |-> e + k + 1]
                  ELSE [s |-> s, m |-> r, e |-> e + k]))))

\* the double of an integer
FromInt(n) == RoundTo(IF n < 0 THEN -1 ELSE 1, Wide(Abs(n)), 0)

IsZero(a) == a.m = <<>>

\* -a
FNeg(a) == [a EXCEPT !.s = -a.s]

\* the mantissa of a with its sign, at exponent e <= a.e
Signed(a, e) ==
    IF a.s < 0 THEN WNeg(ShiftLeft(a.m, a.e - e)) ELSE ShiftLeft(a.m, a.e - e)

\* a + b
FAdd(a, b) ==
    IF IsZero(a) /\ IsZero(b) THEN Zero(IF a.s < 0 /\ b.s < 0 THEN -1 ELSE 1)
    ELSE IF IsZero(a) THEN b
    ELSE IF IsZero(b) THEN a
    ELSE IF a.e - b.e > Prec + 2 THEN a
    ELSE IF b.e - a.e > Prec + 2 THEN b
    ELSE Let(IF a.e < b.e THEN a.e ELSE b.e, LAMBDA e :
         Let(WAdd(Signed(a, e), Signed(b, e)), LAMBDA sum :
             IF sum = <<>> THEN Zero(1)
             ELSE RoundTo(WSign(sum), WAbs(sum), e)))

\* a - b
FSub(a, b) == FAdd(a, FNeg(b))

\* a * b
FMul(a, b) ==
    IF IsZero(a) \/ IsZero(b) THEN Zero(a.s * b.s)
    ELSE RoundTo(a.s * b.s, WMul(a.m, b.m), a.e + b.e)

\* 2^52, the mantissa of the powers of two
PowerOfTwo == ShiftLeft(<<1>>, Prec - 1)

\* a / b for b # 0: the quotient of the mantissas to 56 bits or more,
\* with one more bit that records whether the division left a remainder
FDiv(a, b) ==
    IF IsZero(a) THEN Zero(a.s * b.s)
    ELSE IF b.m = PowerOfTwo
    THEN [s |-> a.s * b.s, m |-> a.m, e |-> a.e - b.e - (Prec - 1)]
    ELSE Let(WDivMod(ShiftLeft(a.m, Prec + 3), b.m), LAMBDA qr :
             RoundTo(a.s * b.s,
                     WAdd(ShiftLeft(qr[1], 1),
                          IF qr[2] = <<>> THEN <<>> ELSE <<1>>),
                     a.e - b.e - (Prec + 3) - 1))

\* math.sqrt(a) for a >= 0: the integer root of the mantissa to 56 bits,
\* with one more bit that records whether the root is inexact
FSqrt(a) ==
    IF IsZero(a) THEN a
    ELSE Let(IF a.e % 2 = 0 THEN Prec + 5 ELSE Prec + 6, LAMBDA sh :
         Let(WSqrt(ShiftLeft(a.m, sh)), LAMBDA r :
             RoundTo(1,
                     WAdd(ShiftLeft(r[1], 1), IF r[2] THEN <<>> ELSE <<1>>),
                     (a.e - sh) \div 2 - 1)))

\* a < b, a > b and a == b
FCmp(a, b) ==
    IF IsZero(a) /\ IsZero(b) THEN 0
    ELSE IF IsZero(a) THEN -b.s
    ELSE IF IsZero(b) THEN a.s
    ELSE IF a.s # b.s THEN a.s
    ELSE IF a.e # b.e THEN (IF a.e > b.e THEN a.s ELSE -a.s)
    ELSE a.s * WSign(WSub(a.m, b.m))
FLess(a, b) == FCmp(a, b) < 0
FGreater(a, b) == FCmp(a, b) > 0
FEq(a, b) == FCmp(a, b) = 0

\* the double of the decimal n / Q, as the literal is read
Float(n) == FDiv(FromInt(n), FromInt(Q))

\* x ** 2 is pow(x, 2.0) of the C library, which is not rounded
\* correctly: its result is off the exact power by up to 0.54 units of
\* the last place, so that a square which lies within PowSlack-th of a
\* unit of the middle of two doubles comes out as either of them, and
\* any other square as the nearest double.  The set of the doubles a ** 2
\* can be.
PowSlack == 16

Squares(a) ==
    IF IsZero(a) THEN {Zero(1)}
    ELSE Let(WMul(a.m, a.m), LAMBDA n :
         Let(BitLen(n) - Prec, LAMBDA k :
         Let(ShiftRight(n, k), LAMBDA q :
         Let(WAbs(WSub(ShiftLeft(WSub(n, ShiftLeft(q, k)), 1),
                       ShiftLeft(<<1>>, k))), LAMBDA off :
             IF WLess(Times(off, PowSlack), ShiftLeft(<<1>>, k + 1))
             THEN {RoundTo(1, q, 2 * a.e + k),
                   RoundTo(1, WAdd(q, <<1>>), 2 * a.e + k)}
             ELSE {RoundTo(1, n, 2 * a.e)}))))

\* int(round(a)): the nearest integer, ties to the even one
RoundPixels(a) ==
    IF IsZero(a) \/ a.e < -(Prec + 1) THEN 0
    ELSE IF a.e >= 0 THEN a.s * WInt(ShiftLeft(a.m, a.e))
    ELSE Let(ShiftRight(a.m, -a.e), LAMBDA q :
         Let(WSign(WSub(ShiftLeft(WSub(a.m, ShiftLeft(q, -a.e)), 1),
                        ShiftLeft(<<1>>, -a.e))), LAMBDA cmp :
             a.s * (WInt(q) +
                    IF cmp > 0 \/ (cmp = 0 /\ Odd(q)) THEN 1 ELSE 0)))

\* int(a): the integer part, towards zero
IntPixels(a) ==
    IF IsZero(a) \/ a.e < -Prec THEN 0
    ELSE IF a.e >= 0 THEN a.s * WInt(ShiftLeft(a.m, a.e))
    ELSE a.s * WInt(ShiftRight(a.m, -a.e))

\* pow is a function: the same argument gives the same power whenever it
\* is asked.  libm holds, for the arguments met so far whose square can
\* be either of two doubles, the one this C library returns (pow(-x, 2.0)
\* is pow(x, 2.0)).  The pairs <<a ** 2, libm afterwards>>.
Pow2(lib, a) ==
    Let([a EXCEPT !.s = 1], LAMBDA key :
        IF key \in DOMAIN lib THEN {<<lib[key], lib>>}
        ELSE Let(Squares(a), LAMBDA squares :
                 IF Cardinality(squares) = 1
                 THEN {<<x2, lib>> : x2 \in squares}
                 ELSE {<<x2, (key :> x2) @@ lib>> : x2 \in squares}))

\* a pow of which nothing is known yet
NoPow == <<>>

\* v, a count of 1/Q, has a double of its own: it is a multiple of 1/4
Representable(v) == v % (Q \div 4) = 0
----------------------------------------------------------------------------
(* AimController (core/controller.py)                                      *)

\* Bounds of the model
MaxCalls == 3

\* Points of the controller are pairs <<x, y>> of doubles; Pt(x, y) is the
\* point whose coordinates are written x / Q and y / Q in decimals
Pt(x, y) == <<Float(x), Float(y)>>

\* Positions of the mouse and corners of boxes are counted in 1/Q pixel;
\* Px(x, y) is the position of the pixel (x, y)
Px(x, y) == <<x * Q, y * Q>>

NoPoint == <<Zero(1), Zero(1)>>

\* An Optional[float] argument: <<>> is None (not passed), <<v>> is the value v
None == <<>>
Some(v) == <<v>>
Optional(S) == {None} \cup {Some(v) : v \in S}

\* AimController.__init__: the gains as given, the history zeroed
NewController(kp, kd, alpha, dead_zone, max_speed) ==
    [kp |-> kp, kd |-> kd, alpha |-> alpha,
     dead_zone |-> dead_zone, max_speed |-> max_speed,
     prev_error_x |-> Zero(1), prev_error_y |-> Zero(1),
     prev_output_x |-> Zero(1), prev_output_y |-> Zero(1)]

\* the controller main.py builds from _default_config
DefaultController ==
    NewController(Float(15), Float(5), Float(85), Float(5 * Q), Float(30 * Q))

\* Error with the operands exchanged: cursor - target
ErrorReversed(cursor_pos, target_pos) ==
    <<FSub(cursor_pos[1], target_pos[1]), FSub(cursor_pos[2], target_pos[2])>>

\* 1. error = target - cursor, per axis
Error(cursor_pos, target_pos) ==
    <<FSub(target_pos[1], cursor_pos[1]), FSub(target_pos[2], cursor_pos[2])>>

\* math.sqrt(x ** 2 + y ** 2) (lines 79 and 104): the pairs
\* <<value, libm afterwards>> it can give
Norms(lib, v) ==
    UNION {{<<FSqrt(FAdd(x2[1], y2[1])), y2[2]>> : y2 \in Pow2(x2[2], v[2])} :
           x2 \in Pow2(lib, v[1])}

\* InDeadZone with "<=" in place of "<"
InDeadZoneInclusive(c, distance) == ~FGreater(distance, c.dead_zone)

\* 2. "distance < self.dead_zone"
InDeadZone(c, distance) == FLess(distance, c.dead_zone)

\* PDOutput whose derivative term forgets prev_error
PDOutputNoHistory(c, error, prev_error, dt) ==
    FAdd(FMul(c.kp, error), FDiv(FMul(c.kd, error), dt))

\* PDOutput without the proportional term
PDOutputDerivativeOnly(c, error, prev_error, dt) ==
    FDiv(FMul(c.kd, FSub(error, prev_error)), dt)

\* 3. PD output of one axis (lines 88-97):
\*    kp * error + kd * (error - prev_error) / dt, for dt # 0
PDOutput(c, error, prev_error, dt) ==
    FAdd(FMul(c.kp, error), FDiv(FMul(c.kd, FSub(error, prev_error)), dt))

\* 4. smoothing of one axis (lines 100-101):
\*    alpha * output + (1 - alpha) * prev_output
Smooth(c, output, prev_output) ==
    FAdd(FMul(c.alpha, output), FMul(FSub(FromInt(1), c.alpha), prev_output))

\* the vector before the clamp (lines 86-101), for dt # 0
Smoothed(c, error, dt) ==
    <<Smooth(c, PDOutput(c, error[1], c.prev_error_x, dt), c.prev_output_x),
      Smooth(c, PDOutput(c, error[2], c.prev_error_y, dt), c.prev_output_y)>>

\* Clamp that scales smoothed_x and forgets smoothed_y
ClampXOnly(c, smoothed, speed) ==
    IF ~FGreater(speed, c.max_speed) THEN smoothed
    ELSE <<FMul(smoothed[1], FDiv(c.max_speed, speed)), smoothed[2]>>

\* Clamp that limits each axis to [-max_speed, max_speed] on its own
ClampAxiswise(c, smoothed, speed) ==
    LET lim(v) == IF FGreater(v, c.max_speed) THEN c.max_speed
                  ELSE IF FLess(v, FNeg(c.max_speed)) THEN FNeg(c.max_speed)
                  ELSE v
    IN  IF ~FGreater(speed, c.max_speed) THEN smoothed
        ELSE <<lim(smoothed[1]), lim(smoothed[2])>>

\* 5. the speed clamp (lines 105-108), for a speed that is not 0.0 where
\*    it exceeds max_speed: scale = max_speed / speed, and each component
\*    times scale
Clamp(c, smoothed, speed) ==
    IF ~FGreater(speed, c.max_speed) THEN smoothed
    ELSE Only({<<FMul(smoothed[1], scale), FMul(smoothed[2], scale)>> :
                  scale \in {FDiv(c.max_speed, speed)}})

\* CommitDeadZone that also stores the zero output as prev_output
CommitDeadZoneBoth(c, error) ==
    [c EXCEPT !.prev_error_x = error[1], !.prev_error_y = error[2],
              !.prev_output_x = Zero(1), !.prev_output_y = Zero(1)]

\* the state update of the dead-zone path (lines 82-83)
CommitDeadZone(c, error) ==
    [c EXCEPT !.prev_error_x = error[1], !.prev_error_y = error[2]]

\* the state update of the active path (lines 111-114)
CommitActive(c, error, out) ==
    [c EXCEPT !.prev_error_x = error[1], !.prev_error_y = error[2],
              !.prev_output_x = out[1], !.prev_output_y = out[2]]

\* the outcome of a call that raised ZeroDivisionError: nothing is returned
\* and no field has been assigned.  distance and speed are the locals of
\* lines 79 and 104, 0.0 where the call did not come to them.
Raised(c, error, distance, smoothed, speed, lib) ==
    [ret |-> NoPoint, path |-> "raise", error |-> error,
     distance |-> distance, smoothed |-> smoothed, speed |-> speed,
     state |-> c, libm |-> lib]

\* line 106 divides by speed = 0.0: the clamp is entered ("speed >
\* self.max_speed") with a speed of zero, which takes max_speed < 0
ClampDividesByZero(c, speed) == IsZero(speed) /\ FGreater(speed, c.max_speed)

\* ClampAndCommit that commits the vector before the clamp as prev_output
ClampAndCommitUnclamped(c, error, distance, smoothed, lib) ==
    {IF ClampDividesByZero(c, speed[1])
     THEN Raised(c, error, distance, smoothed, speed[1], speed[2])
     ELSE [ret |-> Clamp(c, smoothed, speed[1]), path |-> "active",
           error |-> error, distance |-> distance, smoothed |-> smoothed,
           speed |-> speed[1],
           state |-> CommitActive(c, error, smoothed), libm |-> speed[2]] :
     speed \in Norms(lib, smoothed)}

\* lines 103-116 on the smoothed vector: the clamp, the state update and
\* the return, for each value the speed can have.  prev_output is the
\* returned vector.
ClampAndCommit(c, error, distance, smoothed, lib) ==
    {IF ClampDividesByZero(c, speed[1])
     THEN Raised(c, error, distance, smoothed, speed[1], speed[2])
     ELSE Only({[ret |-> out, path |-> "active",
                 error |-> error, distance |-> distance,
                 smoothed |-> smoothed, speed |-> speed[1],
                 state |-> CommitActive(c, error, out), libm |-> speed[2]] :
                out \in {Clamp(c, smoothed, speed[1])}}) :
     speed \in Norms(lib, smoothed)}

\* the outcome of a call that returned in the dead zone (lines 80-84)
Idle(c, error, distance, lib) ==
    [ret |-> NoPoint, path |-> "dead_zone", error |-> error,
     distance |-> distance, smoothed |-> NoPoint, speed |-> Zero(1),
     state |-> CommitDeadZone(c, error), libm |-> lib]

\* Compute that commits the vector before the clamp as prev_output
ComputeCommitUnclamped(c, cursor_pos, target_pos, dt, lib) ==
    UNION {UNION {IF InDeadZone(c, distance[1])
                  THEN {Idle(c, error, distance[1], distance[2])}
                  ELSE IF IsZero(dt)
                  THEN {Raised(c, error, distance[1], NoPoint, Zero(1),
                               distance[2])}
                  ELSE UNION {ClampAndCommitUnclamped(c, error, distance[1],
                                                      smoothed, distance[2]) :
                                 smoothed \in {Smoothed(c, error, dt)}} :
                  distance \in Norms(lib, error)} :
           error \in {Error(cursor_pos, target_pos)}}

\* AimController.compute with the pow lib: the outcomes of a call, each
\* with the returned vector, the path taken, the locals error, distance,
\* smoothed (the vector before the clamp) and speed, the controller
\* afterwards and the pow afterwards.  There is one outcome, but where a
\* square of line 79 or 104 can be either of two doubles and the two lead
\* apart.  Past the dead-zone test, "/ dt" (lines 92-93) raises
\* ZeroDivisionError for dt = 0, and "self.max_speed / speed" (line 106)
\* for speed = 0; both come before the assignments of lines 111-114.
Compute(c, cursor_pos, target_pos, dt, lib) ==
    UNION {UNION {IF InDeadZone(c, distance[1])
                  THEN {Idle(c, error, distance[1], distance[2])}
                  ELSE IF IsZero(dt)
                  THEN {Raised(c, error, distance[1], NoPoint, Zero(1),
                               distance[2])}
                  ELSE UNION {ClampAndCommit(c, error, distance[1],
                                             smoothed, distance[2]) :
                                 smoothed \in {Smoothed(c, error, dt)}} :
                  distance \in Norms(lib, error)} :
           error \in {Error(cursor_pos, target_pos)}}

\* Reset that clears prev_error and forgets prev_output
ResetErrorOnly(c) ==
    [c EXCEPT !.prev_error_x = Zero(1), !.prev_error_y = Zero(1)]

\* AimController.reset
Reset(c) ==
    [c EXCEPT !.prev_error_x = Zero(1), !.prev_error_y = Zero(1),
              !.prev_output_x = Zero(1), !.prev_output_y = Zero(1)]

\* Updated with "if x:" in place of "if x is not None:"
UpdatedIfTruthy(old, arg) ==
    IF arg # None /\ ~IsZero(arg[1]) THEN arg[1] ELSE old

\* one "if x is not None: self.x = x" of update_params
Updated(old, arg) == IF arg # None THEN arg[1] ELSE old

\* AimController.update_params
UpdateParams(c, kp, kd, alpha, dead_zone, max_speed) ==
    [c EXCEPT !.kp = Updated(@, kp), !.kd = Updated(@, kd),
              !.alpha = Updated(@, alpha),
              !.dead_zone = Updated(@, dead_zone),
              !.max_speed = Updated(@, max_speed)]
----------------------------------------------------------------------------
(* Detection (core/detector.py) and TargetSelector (core/target_selector.py) *)

\* Bounds of the model
MaxDets == 2

\* Detection: a box with its score and class.  Its corners count 2/Q
\* pixel (x1 = 46005 is 920.1), half as fine as positions, so that the
\* centre of every box has a value in 1/Q.
Detection(x1, y1, x2, y2) ==
    [x1 |-> x1 * (Q \div 2), y1 |-> y1 * (Q \div 2),
     x2 |-> x2 * (Q \div 2), y2 |-> y2 * (Q \div 2),
     score |-> 90, class_id |-> 0]

\* a corner of a box in 1/Q pixel
Corner(v) == 2 * v

\* Detection.center_x, Detection.center_y: (x1 + x2) / 2 in 1/Q pixel, exact
CenterX(det) == (Corner(det.x1) + Corner(det.x2)) \div 2
CenterY(det) == (Corner(det.y1) + Corner(det.y2)) \div 2

\* TargetSelector.SCREEN_CENTER
SCREEN_CENTER == Px(960, 540)

\* TargetSelector.__init__
NewSelector == [candidates |-> <<>>, current_target |-> None]

\* _point_in_box with exclusive edges
PointInBoxStrict(x, y, detection) ==
    /\ Corner(detection.x1) < x /\ x < Corner(detection.x2)
    /\ Corner(detection.y1) < y /\ y < Corner(detection.y2)

\* TargetSelector._point_in_box
PointInBox(x, y, detection) ==
    /\ Corner(detection.x1) <= x /\ x <= Corner(detection.x2)
    /\ Corner(detection.y1) <= y /\ y <= Corner(detection.y2)

\* the filter of lines 46-49: the box does not contain the screen centre
NotOnCenter(det) == ~PointInBox(SCREEN_CENTER[1], SCREEN_CENTER[2], det)

\* the radicand of the distance of lines 65-68 (box centre to cursor),
\* exact, in 1/Q^2.  Two distances are compared on their radicands where
\* these differ: sqrt is strictly increasing.
DistanceSq(detection, cursor_pos) ==
    WAdd(Sq(CenterX(detection) - cursor_pos[1]),
         Sq(CenterY(detection) - cursor_pos[2]))

\* "distance < min_distance" with "<=" in place of "<"
CloserLast(distanceSq, rounding, min_distance) ==
    min_distance = None \/ WSign(WSub(distanceSq, min_distance[1][1])) <= 0

\* "distance < min_distance"; min_distance is None while it is float('inf'),
\* and else the radicand and the rounding of the smallest distance so far.
\* Equal radicands are told apart by the roundings of the two roots.
Closer(distanceSq, rounding, min_distance) ==
    \/ min_distance = None
    \/ \E side \in {WSign(WSub(distanceSq, min_distance[1][1]))} :
          side < 0 \/ (side = 0 /\ rounding < min_distance[1][2])

RECURSIVE NearestLoop(_, _, _, _, _, _)
\* the loop of lines 63-72 from index i on: the value of nearest_target at
\* its end; fp[i] is the rounding of the distance of filtered[i]
NearestLoop(filtered, cursor_pos, i, min_distance, nearest_target, fp) ==
    IF i > Len(filtered) THEN nearest_target
    ELSE LET distanceSq == DistanceSq(filtered[i], cursor_pos)
         IN  IF Closer(distanceSq, fp[i], min_distance)
             THEN NearestLoop(filtered, cursor_pos, i + 1,
                              Some(<<distanceSq, fp[i]>>), Some(filtered[i]), fp)
             ELSE NearestLoop(filtered, cursor_pos, i + 1,
                              min_distance, nearest_target, fp)

\* The roundings a call of select may meet, one for the distance of every
\* box that survives the filter.  A rounding matters where two boxes are
\* equally far in exact arithmetic; the distance of a box is exact when
\* its corners and the cursor are binary fractions, and two boxes with the
\* same corners have the same distance in doubles too.  The roundings of
\* several inexact boxes are ranks: they may lie in any order, among
\* themselves and about the exact value 0.
SelectRoundings(detections, cursor_pos) ==
    LET filtered == SelectSeq(detections, NotOnCenter)
        N == 1..Len(filtered)
        corners(i) == <<filtered[i].x1, filtered[i].y1,
                        filtered[i].x2, filtered[i].y2>>
        exact(i) == /\ \A k \in 1..4 : Representable(Corner(corners(i)[k]))
                    /\ Representable(cursor_pos[1])
                    /\ Representable(cursor_pos[2])
        tied(i) == \E j \in N :
                      /\ corners(j) # corners(i)
                      /\ DistanceSq(filtered[j], cursor_pos) =
                             DistanceSq(filtered[i], cursor_pos)
        loose == {i \in N : ~exact(i) /\ tied(i)}
        L == Cardinality({corners(i) : i \in loose})
    IN  {fp \in {[i \in N |-> IF i \in loose THEN g[i] ELSE 0] :
                    g \in [loose -> -L..L]} :
            \A i, j \in loose : corners(i) = corners(j) => fp[i] = fp[j]}

\* select that leaves current_target as it was when every box is excluded
SelectKeepTarget(s, detections, cursor_pos, fp) ==
    IF detections = <<>>
    THEN [ret |-> None,
          state |-> [candidates |-> <<>>, current_target |-> None]]
    ELSE LET filtered == SelectSeq(detections, NotOnCenter)
         IN  IF filtered = <<>>
             THEN [ret |-> None,
                   state |-> [s EXCEPT !.candidates = filtered]]
             ELSE LET nearest == NearestLoop(filtered, cursor_pos, 1, None, None, fp)
                  IN  [ret |-> nearest,
                       state |-> [candidates |-> filtered,
                                  current_target |-> nearest]]

\* select that keeps the current target while it is still among the boxes
\* that survive (a target lock)
SelectSticky(s, detections, cursor_pos, fp) ==
    IF detections = <<>>
    THEN [ret |-> None,
          state |-> [candidates |-> <<>>, current_target |-> None]]
    ELSE LET filtered == SelectSeq(detections, NotOnCenter)
             locked == /\ s.current_target # None
                       /\ \E i \in 1..Len(filtered) :
                              filtered[i] = s.current_target[1]
         IN  IF filtered = <<>>
             THEN [ret |-> None,
                   state |-> [candidates |-> filtered, current_target |-> None]]
             ELSE LET nearest ==
                          IF locked THEN s.current_target
                          ELSE NearestLoop(filtered, cursor_pos, 1, None, None, fp)
                  IN  [ret |-> nearest,
                       state |-> [candidates |-> filtered,
                                  current_target |-> nearest]]

\* select that appends the surviving boxes to the candidates it holds
SelectAccumulate(s, detections, cursor_pos, fp) ==
    IF detections = <<>>
    THEN [ret |-> None,
          state |-> [candidates |-> <<>>, current_target |-> None]]
    ELSE LET filtered == SelectSeq(detections, NotOnCenter)
         IN  IF filtered = <<>>
             THEN [ret |-> None,
                   state |-> [candidates |-> s.candidates \o filtered,
                              current_target |-> None]]
             ELSE LET nearest == NearestLoop(filtered, cursor_pos, 1, None, None, fp)
                  IN  [ret |-> nearest,
                       state |-> [candidates |-> s.candidates \o filtered,
                                  current_target |-> nearest]]

\* TargetSelector.select: the value returned and the selector afterwards;
\* fp holds the roundings of the distances the loop computes
Select(s, detections, cursor_pos, fp) ==
    IF detections = <<>>
    THEN [ret |-> None,
          state |-> [candidates |-> <<>>, current_target |-> None]]
    ELSE LET filtered == SelectSeq(detections, NotOnCenter)
         IN  IF filtered = <<>>
             THEN [ret |-> None,
                   state |-> [candidates |-> filtered, current_target |-> None]]
             ELSE LET nearest == NearestLoop(filtered, cursor_pos, 1, None, None, fp)
                  IN  [ret |-> nearest,
                       state |-> [candidates |-> filtered,
                                  current_target |-> nearest]]

\* TargetSelector.get_candidates: the value returned, the selector afterwards
GetCandidates(s) == [ret |-> s.candidates, state |-> s]

\* TargetSelector.get_current_target
GetCurrentTarget(s) == [ret |-> s.current_target, state |-> s]

\* Boxes the model passes to select (pixels): one with the screen centre
\* inside, one with it on an edge, three clear of it
BoxInside == Detection(950, 530, 970, 550)
BoxEdge == Detection(960, 500, 1000, 580)
BoxLeft == Detection(840, 530, 860, 550)
BoxRight == Detection(945, 500, 955, 580)
BoxFar == Detection(1000, 600, 1040, 640)
\* a box with corners that doubles do not hold exactly (920.1, 570.3,
\* 939.9, 589.7): its centre (930, 580) is 50 from the cursor (900, 540) in
\* decimals, as the centres of BoxLeft and BoxRight are
BoxTilt == [x1 |-> 46005, y1 |-> 28515, x2 |-> 46995, y2 |-> 29485,
            score |-> 90, class_id |-> 0]
Boxes == {BoxInside, BoxEdge, BoxLeft, BoxRight, BoxTilt}

\* the detection lists of at most n boxes
Lists(n) == UNION {[1..k -> Boxes] : k \in 0..n}

\* Cursor positions the model passes to select
SelCursors == {Px(900, 540), Px(960, 540)}

----------------------------------------------------------------------------
(* Logger (utils/logger.py)                                                *)

\* Bounds of the model
MaxLogs == 6

\* Logger.__init__: an entry is kept as its frame_id and the
\* aim_assist_enabled flag it was logged with
NewLogger(enabled, log_interval) ==
    [enabled |-> enabled, log_interval |-> log_interval,
     frame_count |-> 0, entries |-> <<>>]

\* the logger main.py builds from _default_config ('logging')
DefaultLogger == NewLogger(TRUE, 100)

\* Log that tests the interval before it counts the frame
LogTestBeforeCount(l, aim_assist_enabled) ==
    IF ~l.enabled THEN l
    ELSE IF l.frame_count % l.log_interval # 0
         THEN [l EXCEPT !.frame_count = @ + 1]
         ELSE [l EXCEPT !.frame_count = @ + 1,
                        !.entries =
                            Append(@, [frame_id |-> l.frame_count + 1,
                                       aim_assist_enabled |->
                                           aim_assist_enabled])]

\* Logger.log (lines 101-122): the logger afterwards
Log(l, aim_assist_enabled) ==
    IF ~l.enabled THEN l
    ELSE LET frame_count == l.frame_count + 1
         IN  IF frame_count % l.log_interval # 0
             THEN [l EXCEPT !.frame_count = frame_count]
             ELSE [l EXCEPT !.frame_count = frame_count,
                            !.entries =
                                Append(@, [frame_id |-> frame_count,
                                           aim_assist_enabled |->
                                               aim_assist_enabled])]

\* Values the model passes to the Logger constructor
LogIntervals == {1, 2, 3}

----------------------------------------------------------------------------
(* The controller driven through its API by an arbitrary caller.           *)

\* Arguments <<cursor_pos, target_pos, dt>> the caller passes to compute:
\* a target at distance 5 = dead_zone, one whose coordinates are no binary
\* fractions, one inside the dead zone, and targets far enough for the clamp
ComputeArgs ==
    {<<Pt(0, 0), Pt(300, 400), Float(Q)>>,
     <<Pt(0, 0), Pt(140, 480), Float(Q)>>,
     <<Pt(100, 400), Pt(300, 400), Float(Q)>>,
     <<Pt(0, 0), Pt(10000, 0), Float(Q)>>,
     <<Pt(0, 0), Pt(-8000, 6000), Float(Q)>>,
     <<Pt(100, 400), Pt(-8000, 6000), Float(2 * Q)>>}

\* Values the caller passes to the constructor and to update_params
KpValues == {Float(15)}
KdValues == {Float(5)}
AlphaValues == {Float(85)}
DeadZoneValues == {Float(5 * Q), Float(0)}
MaxSpeedValues == {Float(30 * Q), Float(10 * Q), Float(0)}

\* the arguments kp, kd, alpha, dead_zone, max_speed of update_params, when
\* none is passed
NoArgs == <<None, None, None, None, None>>

\* the controller holds history (some prev_* field is not zero)
HasHistory(c) ==
    \/ ~IsZero(c.prev_error_x) \/ ~IsZero(c.prev_error_y)
    \/ ~IsZero(c.prev_output_x) \/ ~IsZero(c.prev_output_y)

\* obs of a state in which no call has been made yet.  twin: what the
\* same call returned on the second controller
NoCall ==
    [op |-> "init", cursor |-> NoPoint, target |-> NoPoint, dt |-> Zero(1),
     path |-> "none", ret |-> NoPoint, error |-> NoPoint,
     distance |-> Zero(1), smoothed |-> NoPoint, speed |-> Zero(1),
     prevOp |-> "none", dirty |-> FALSE, args |-> NoArgs,
     twin |-> None]

\* obs after the compute call with arguments args and outcome r
Computed(args, r, twin) ==
    [op |-> "compute", cursor |-> args[1], target |-> args[2],
     dt |-> args[3], path |-> r.path, ret |-> r.ret, error |-> r.error,
     distance |-> r.distance, smoothed |-> r.smoothed, speed |-> r.speed,
     prevOp |-> obs.op, dirty |-> obs.dirty, args |-> NoArgs,
     twin |-> twin]

\* a position of the mouse that has not been read
NoPosition == <<0, 0>>

\* sel_obs of a state in which select has not been called
NoSelect ==
    [op |-> "init", detections |-> <<>>, cursor |-> NoPosition, ret |-> None,
     hadTarget |-> FALSE, got |-> <<>>, fp |-> <<>>]

\* the second selector as constructed.  paired: the last select was made on
\* both selectors with the same arguments (ret, other_ret: what each
\* returned); differed: they held different state when it was made.
NoTwinSelector ==
    [s |-> NewSelector, ret |-> None, other_ret |-> None,
     paired |-> FALSE, differed |-> FALSE]

CtlInit ==
    /\ \E kp \in KpValues, kd \in KdValues, alpha \in AlphaValues,
          dead_zone \in DeadZoneValues, max_speed \in MaxSpeedValues :
          controller = NewController(kp, kd, alpha, dead_zone, max_speed)
    /\ calls = 0
    /\ obs = NoCall
    /\ twin_ctl = None
    /\ libm = NoPow

SelInit ==
    /\ selector = NewSelector
    /\ sel_obs = NoSelect
    /\ twin_sel = NoTwinSelector

\* the history fields of a controller that has read none yet
NoHistory ==
    [prev_error_x |-> Zero(1), prev_error_y |-> Zero(1),
     prev_output_x |-> Zero(1), prev_output_y |-> Zero(1)]

\* the locals of an iteration that has not run yet
NoFrame ==
    [detections |-> <<>>, screen_detections |-> <<>>,
     centers |-> <<>>, cursor_pos |-> NoPosition, target |-> None,
     first |-> FALSE,
     saw_history |-> FALSE, result |-> None,
     selects |-> 0, select_args |-> <<<<>>, NoPosition>>,
     computes |-> 0, compute_args |-> <<NoPoint, NoPoint>>,
     error |-> NoPoint, distance |-> Zero(1), seen |-> NoHistory,
     moves |-> 0, moved |-> <<0, 0>>, moved_from |-> NoPosition,
     enabled_at_move |-> FALSE, nudged |-> FALSE]

\* _default_config, 'capture': the screen and the model input size
DefaultConfig ==
    [screen_width |-> 1920 * Q, screen_height |-> 1080 * Q,
     target_width |-> 640 * Q, target_height |-> 360 * Q,
     overlay_enabled |-> TRUE]

\* a config.yaml for a 2560x1440 screen, run with --no-overlay
WideConfig ==
    [screen_width |-> 2560 * Q, screen_height |-> 1440 * Q,
     target_width |-> 640 * Q, target_height |-> 360 * Q,
     overlay_enabled |-> FALSE]

\* the modules after _init_modules and _setup_keyboard: the listener
\* started, the capture open, the overlay window not created yet.
\* entered, returned: how often shutdown() was called and how often it
\* came to its end; early: KeyboardInterrupt was raised before run() had
\* reached its try statement; interrupted: it was raised in the loop;
\* late: it was raised after the loop had been left; raising: an exception
\* is on its way out of run()
Started ==
    [listener |-> "running", capture |-> "open", overlay |-> "none",
     logger |-> "open", entered |-> 0, returned |-> 0,
     early |-> FALSE, interrupted |-> FALSE, late |-> FALSE,
     raising |-> FALSE,
     esc_mid |-> FALSE, last_tick |-> "none"]

\* what _load_config may return
Configs == {DefaultConfig, WideConfig}

\* the simulation of controller.py while it is not run
NoSim ==
    [pc |-> "off", cursor |-> NoPoint, target |-> NoPoint, i |-> 0,
     delta |-> NoPoint, distance |-> Zero(1), broke |-> FALSE]

\* AimAssistSystem.__init__ (lines 48-50, 63) and the mouse where it stands;
\* run() has been called and is at its first statement (line 212)
SysStart ==
    /\ running = TRUE
    /\ aim_enabled = FALSE
    /\ mouse = Px(900, 540)
    /\ pc_main = "run"
    /\ frame = NoFrame
    /\ pc_key = "idle"
    /\ ticks = 0
    /\ keys = 0
    /\ first_pending = FALSE
    /\ life = Started
    /\ logger = DefaultLogger
    /\ sim = NoSim

\* the system as constructed without a config.yaml
SysInit == SysStart /\ config = DefaultConfig

Init == CtlInit /\ SelInit /\ SysInit

\* the same call made on the second controller, where there is one: the
\* pairs <<twin_ctl afterwards, what obs keeps of the call, libm afterwards>>
TwinCompute(args, lib) ==
    IF twin_ctl = None THEN {<<None, None, lib>>}
    ELSE {<<Some(t.state), Some([ret |-> t.ret, path |-> t.path]), t.libm>> :
            t \in Compute(twin_ctl[1], args[1], args[2], args[3], lib)}

CallCompute ==
    /\ calls < MaxCalls
    /\ \E args \in ComputeArgs :
       \E r \in Compute(controller, args[1], args[2], args[3], libm) :
       \E t \in TwinCompute(args, r.libm) :
           /\ controller' = r.state
           /\ twin_ctl' = t[1]
           /\ libm' = t[3]
           /\ obs' = Computed(args, r, t[2])
    /\ calls' = calls + 1
    /\ UNCHANGED <<selVars, sysVars>>

\* reset(); next to the controller that was reset, a second one is
\* constructed with the same gains
CallReset ==
    /\ calls < MaxCalls
    /\ controller' = Reset(controller)
    /\ twin_ctl' = Some(NewController(controller.kp, controller.kd,
                                      controller.alpha, controller.dead_zone,
                                      controller.max_speed))
    /\ obs' = [NoCall EXCEPT !.op = "reset", !.prevOp = obs.op,
                             !.dirty = HasHistory(controller) \/
                                       (obs.op = "reset" /\ obs.dirty)]
    /\ calls' = calls + 1
    /\ UNCHANGED <<libm, selVars, sysVars>>

\* update_params(...), on both controllers where there are two
CallUpdateParams ==
    /\ calls < MaxCalls
    /\ \E kp \in Optional(KpValues), kd \in Optional(KdValues),
          alpha \in Optional(AlphaValues),
          dead_zone \in Optional(DeadZoneValues),
          max_speed \in Optional(MaxSpeedValues) :
          /\ controller' = UpdateParams(controller, kp, kd, alpha,
                                        dead_zone, max_speed)
          /\ twin_ctl' = IF twin_ctl = None THEN None
                         ELSE Some(UpdateParams(twin_ctl[1], kp, kd, alpha,
                                                dead_zone, max_speed))
          /\ obs' = [NoCall EXCEPT !.op = "update_params",
                                   !.prevOp = obs.op]
    /\ calls' = calls + 1
    /\ UNCHANGED <<libm, selVars, sysVars>>

Next == CallCompute \/ CallReset \/ CallUpdateParams

Spec == Init /\ [][Next]_vars
----------------------------------------------------------------------------
(* The controller driven by a caller that ignores the documented ranges:   *)
(* dt = 0 and dt < 0, gains out of range.  Nothing in the code validates.  *)

\* Bounds of the model
MaxMisuse == 3

\* Arguments this caller passes to compute: cursor on the target, cursor
\* away from it, and a dt that is positive, zero or negative
MisuseArgs ==
    {Pt(0, 0)} \X {Pt(0, 0), Pt(6000, 8000), Pt(10000, 0)}
        \X {Float(Q), Float(0), Float(-Q)}

\* Values this caller passes to update_params: zero, negative, alpha > 1
MisuseParams ==
    [kp |-> {Float(0)}, kd |-> {Float(-5)}, alpha |-> {Float(150)},
     dead_zone |-> {Float(0)}, max_speed |-> {Float(-Q)}]

MisuseCompute ==
    /\ calls < MaxMisuse
    /\ \E args \in MisuseArgs :
       \E r \in Compute(controller, args[1], args[2], args[3], libm) :
           /\ controller' = r.state
           /\ libm' = r.libm
           /\ obs' = Computed(args, r, None)
    /\ calls' = calls + 1
    /\ UNCHANGED <<twin_ctl, selVars, sysVars>>

MisuseReset ==
    /\ calls < MaxMisuse
    /\ controller' = Reset(controller)
    /\ obs' = [NoCall EXCEPT !.op = "reset", !.prevOp = obs.op,
                             !.path = obs.path,
                             !.dirty = HasHistory(controller)]
    /\ calls' = calls + 1
    /\ UNCHANGED <<twin_ctl, libm, selVars, sysVars>>

MisuseUpdateParams ==
    /\ calls < MaxMisuse
    /\ \E kp \in Optional(MisuseParams.kp),
          kd \in Optional(MisuseParams.kd),
          alpha \in Optional(MisuseParams.alpha),
          dead_zone \in Optional(MisuseParams.dead_zone),
          max_speed \in Optional(MisuseParams.max_speed) :
          /\ controller' = UpdateParams(controller, kp, kd, alpha,
                                        dead_zone, max_speed)
          /\ obs' = [NoCall EXCEPT
                         !.op = "update_params", !.prevOp = obs.op,
                         !.dirty = HasHistory(controller),
                         !.args = <<kp, kd, alpha, dead_zone, max_speed>>]
    /\ calls' = calls + 1
    /\ UNCHANGED <<twin_ctl, libm, selVars, sysVars>>

MisuseInit ==
    /\ controller = DefaultController /\ calls = 0 /\ obs = NoCall
    /\ twin_ctl = None /\ libm = NoPow
    /\ SelInit /\ SysInit

MisuseNext == MisuseCompute \/ MisuseReset \/ MisuseUpdateParams

MisuseSpec == MisuseInit /\ [][MisuseNext]_vars
----------------------------------------------------------------------------
(* The selector driven through its API by an arbitrary caller.             *)

CallSelect ==
    /\ \E detections \in Lists(MaxDets), cursor_pos \in SelCursors :
          \E fp \in SelectRoundings(detections, cursor_pos) :
          \E r \in {Select(selector, detections, cursor_pos, fp)} :
              /\ selector' = r.state
              /\ sel_obs' = [op |-> "select", detections |-> detections,
                             cursor |-> cursor_pos, ret |-> r.ret,
                             hadTarget |-> selector.current_target # None,
                             got |-> <<>>, fp |-> fp]
    /\ UNCHANGED <<ctlVars, twin_sel, sysVars>>

CallGetCandidates ==
    /\ LET r == GetCandidates(selector)
       IN  /\ selector' = r.state
           /\ sel_obs' = [sel_obs EXCEPT !.op = "get_candidates",
                                         !.got = r.ret]
    /\ UNCHANGED <<ctlVars, twin_sel, sysVars>>

CallGetCurrentTarget ==
    /\ LET r == GetCurrentTarget(selector)
       IN  /\ selector' = r.state
           /\ sel_obs' = [sel_obs EXCEPT !.op = "get_current_target",
                                         !.got = r.ret]
    /\ UNCHANGED <<ctlVars, twin_sel, sysVars>>

SelectorInit ==
    /\ controller = DefaultController /\ calls = 0 /\ obs = NoCall
    /\ twin_ctl = None /\ libm = NoPow
    /\ SelInit /\ SysInit

SelectorNext == CallSelect \/ CallGetCandidates \/ CallGetCurrentTarget

SelectorSpec == SelectorInit /\ [][SelectorNext]_vars

----------------------------------------------------------------------------
(* Two TargetSelector instances called independently by one caller, and    *)
(* now and then with the same arguments.                                   *)

\* Arguments the caller passes to select, on either instance
TwinLists ==
    {<<>>, <<BoxRight>>, <<BoxLeft, BoxRight>>, <<BoxInside, BoxFar>>}
TwinSelCursors == {Px(900, 540)}

\* select on the first instance
TwinSelect ==
    /\ \E detections \in TwinLists, cursor_pos \in TwinSelCursors :
          \E fp \in SelectRoundings(detections, cursor_pos) :
          \E r \in {Select(selector, detections, cursor_pos, fp)} :
              /\ selector' = r.state
              /\ sel_obs' = [op |-> "select", detections |-> detections,
                             cursor |-> cursor_pos, ret |-> r.ret,
                             hadTarget |-> selector.current_target # None,
                             got |-> <<>>, fp |-> fp]
    /\ twin_sel' = [twin_sel EXCEPT !.paired = FALSE, !.differed = FALSE]
    /\ UNCHANGED <<ctlVars, sysVars>>

\* select on the second instance
TwinSelectOther ==
    /\ \E detections \in TwinLists, cursor_pos \in TwinSelCursors :
          \E fp \in SelectRoundings(detections, cursor_pos) :
          \E r \in {Select(twin_sel.s, detections, cursor_pos, fp)} :
              twin_sel' = [s |-> r.state, ret |-> r.ret, other_ret |-> None,
                           paired |-> FALSE, differed |-> FALSE]
    /\ UNCHANGED <<ctlVars, selector, sel_obs, sysVars>>

\* select on both instances, with the same arguments
TwinSelectBoth ==
    /\ \E detections \in TwinLists, cursor_pos \in TwinSelCursors :
          \E fp \in SelectRoundings(detections, cursor_pos) :
          LET r == Select(selector, detections, cursor_pos, fp)
              other == Select(twin_sel.s, detections, cursor_pos, fp)
          IN  /\ selector' = r.state
              /\ sel_obs' = [op |-> "select", detections |-> detections,
                             cursor |-> cursor_pos, ret |-> r.ret,
                             hadTarget |-> selector.current_target # None,
                             got |-> <<>>, fp |-> fp]
              /\ twin_sel' = [s |-> other.state, ret |-> other.ret,
                              other_ret |-> r.ret, paired |-> TRUE,
                              differed |-> twin_sel.s # selector]
    /\ UNCHANGED <<ctlVars, sysVars>>

TwinSelInit ==
    /\ controller = DefaultController /\ calls = 0 /\ obs = NoCall
    /\ twin_ctl = None /\ libm = NoPow
    /\ SelInit /\ SysInit

TwinSelNext ==
    \/ TwinSelect \/ TwinSelectOther \/ TwinSelectBoth
    \/ CallGetCandidates \/ CallGetCurrentTarget

TwinSelSpec == TwinSelInit /\ [][TwinSelNext]_vars

----------------------------------------------------------------------------
(* AimAssistSystem (main.py): the main loop of run() and the keyboard      *)
(* listener thread's on_press, interleaved statement by statement.         *)
(* The selector works on positions in 1/Q pixel; compute is handed the     *)
(* same numbers as the doubles the code holds.                             *)

\* Bounds of the model
MaxTicks == 2
MaxKeys == 2

\* get_scale_factors (utils/coordinate.py): screen size / model size, e.g.
\* 1920/640 and 1080/360 for _default_config.  The quotient is carried as
\* the exact ratio <<screen pixels, model pixels>> (2.134375 for 1366/640
\* has no value in 1/Q), and a product with it is rounded once.
ScaleX(cfg) == <<cfg.screen_width \div Q, cfg.target_width \div Q>>
ScaleY(cfg) == <<cfg.screen_height \div Q, cfg.target_height \div Q>>

\* float product v * scale of a coordinate with a scale factor
Scaled(v, scale) == RoundDiv(v * scale[1], scale[2])

\* Detection.to_screen_coords
ToScreenCoords(det, scale_x, scale_y) ==
    [det EXCEPT !.x1 = Scaled(det.x1, scale_x), !.y1 = Scaled(det.y1, scale_y),
                !.x2 = Scaled(det.x2, scale_x), !.y2 = Scaled(det.y2, scale_y)]

\* What the detector may report for a frame (model coordinates, 640x360):
\* nothing, one box around the place where the cursor starts, or the
\* player's own box and one box right of the cursor
ModelNear == Detection(299, 179, 302, 181)
ModelRight == Detection(315, 170, 318, 190)
ModelSelf == Detection(310, 170, 330, 190)
Frames == {<<>>, <<ModelNear>>, <<ModelSelf, ModelRight>>}

\* lines 225-228: every detection rescaled to screen coordinates
ScreenDetections(detections, cfg) ==
    [i \in 1..Len(detections) |->
        ToScreenCoords(detections[i], ScaleX(cfg), ScaleY(cfg))]

\* the quotient of get_scale_factors as the double it is
ScaleFactor(scale) == FDiv(FromInt(scale[1]), FromInt(scale[2]))

\* Detection.center_x and center_y of to_screen_coords(det): the corners
\* of det as doubles, each times its scale factor, and (x1 + x2) / 2
ScreenCenter(det, cfg) ==
    Let(ScaleFactor(ScaleX(cfg)), LAMBDA scale_x :
    Let(ScaleFactor(ScaleY(cfg)), LAMBDA scale_y :
        <<FDiv(FAdd(FMul(Float(Corner(det.x1)), scale_x),
                    FMul(Float(Corner(det.x2)), scale_x)), FromInt(2)),
          FDiv(FAdd(FMul(Float(Corner(det.y1)), scale_y),
                    FMul(Float(Corner(det.y2)), scale_y)), FromInt(2))>>))

\* the centres of the rescaled detections, as doubles
ScreenCenters(detections, cfg) ==
    [i \in 1..Len(detections) |-> ScreenCenter(detections[i], cfg)]

\* mouse.get_position() (mouse_control.py 27): whole pixels, as compute
\* receives them
CursorPos(pos) == <<FromInt(pos[1] \div Q), FromInt(pos[2] \div Q)>>

\* (target.center_x, target.center_y) of line 236: target is the first of
\* the rescaled detections that equals the one select returned
TargetPos(f) ==
    f.centers[CHOOSE i \in 1..Len(f.screen_detections) :
                 /\ f.screen_detections[i] = f.target[1]
                 /\ \A j \in 1..(i - 1) :
                        f.screen_detections[j] # f.target[1]]

\* MouseController.move_absolute: the position the mouse is set to,
\* (int(x), int(y)), in 1/Q pixel
MoveAbsolute(x, y) == <<IntPixels(x) * Q, IntPixels(y) * Q>>

\* MouseController.move_relative: the position of a mouse at pos afterwards,
\* moved by (int(round(dx)), int(round(dy)))
MoveRelative(pos, dx, dy) ==
    <<pos[1] + RoundPixels(dx) * Q, pos[2] + RoundPixels(dy) * Q>>

\* lines 210-214: run() prints its first line and enters the try statement
MainRun ==
    /\ pc_main = "run"
    /\ pc_main' = "loop"
    /\ UNCHANGED <<ctlVars, selVars, running, aim_enabled, mouse, frame,
                   pc_key, ticks, keys, config, life, first_pending, logger, sim>>

\* KeyboardInterrupt raised in run() before the try statement (lines
\* 210-212): no except clause and no finally is in force, the exception
\* leaves run() and shutdown() is not called
MainInterruptRun ==
    /\ pc_main = "run"
    /\ pc_main' = "aborted"
    /\ life' = [life EXCEPT !.early = TRUE, !.raising = TRUE]
    /\ UNCHANGED <<ctlVars, selVars, running, aim_enabled, mouse, frame,
                   pc_key, ticks, keys, config, first_pending, logger, sim>>

\* MainLoopTest of a loop that runs for ever ("while True")
MainLoopTestForever ==
    /\ pc_main = "loop"
    /\ ticks < MaxTicks
    /\ pc_main' = "detect"
    /\ frame' = NoFrame
    /\ UNCHANGED <<ctlVars, selVars, running, aim_enabled, mouse, pc_key,
                   ticks, keys, config, life, first_pending, logger, sim>>

\* line 215: while self.running; the loop left, "finally" is next
MainLoopTest ==
    /\ pc_main = "loop"
    /\ ticks < MaxTicks \/ ~running
    /\ pc_main' = IF running THEN "detect" ELSE "finally"
    /\ frame' = NoFrame
    /\ UNCHANGED <<ctlVars, selVars, running, aim_enabled, mouse, pc_key,
                   ticks, keys, config, life, first_pending, logger, sim>>

\* lines 218-228: capture, detect, rescale
MainDetect ==
    /\ pc_main = "detect"
    /\ \E detections \in Frames :
          frame' = [frame EXCEPT
                       !.detections = detections,
                       !.screen_detections = ScreenDetections(detections, config),
                       !.centers = ScreenCenters(detections, config)]
    /\ pc_main' = "select"
    /\ UNCHANGED <<ctlVars, selVars, running, aim_enabled, mouse, pc_key,
                   ticks, keys, config, life, first_pending, logger, sim>>

\* lines 231-232: read the cursor, select the target
MainSelect ==
    /\ pc_main = "select"
    /\ \E fp \in SelectRoundings(frame.screen_detections, mouse) :
       \E r \in {Select(selector, frame.screen_detections, mouse, fp)} :
           /\ selector' = r.state
           /\ frame' = [frame EXCEPT
                            !.cursor_pos = mouse, !.target = r.ret,
                            !.selects = @ + 1,
                            !.select_args = <<frame.screen_detections, mouse>>]
    /\ pc_main' = "check"
    /\ UNCHANGED <<ctlVars, sel_obs, twin_sel, running, aim_enabled, mouse,
                   pc_key, ticks, keys, config, life, first_pending, logger,
                   sim>>

\* MainCheck that resets the controller when the test fails
MainCheckResetOnMiss ==
    /\ pc_main = "check"
    /\ IF aim_enabled /\ frame.target # None
       THEN /\ pc_main' = "compute"
            /\ frame' = [frame EXCEPT !.first = first_pending]
            /\ first_pending' = FALSE
            /\ UNCHANGED controller
       ELSE /\ pc_main' = "overlay"
            /\ controller' = Reset(controller)
            /\ UNCHANGED <<frame, first_pending>>
    /\ UNCHANGED <<selVars, calls, obs, twin_ctl, libm, running, aim_enabled,
                   mouse, pc_key, ticks, keys, config, life, logger, sim>>

\* line 235: if self.aim_enabled and target
MainCheck ==
    /\ pc_main = "check"
    /\ IF aim_enabled /\ frame.target # None
       THEN /\ pc_main' = "compute"
            /\ frame' = [frame EXCEPT !.first = first_pending]
            /\ first_pending' = FALSE
       ELSE /\ pc_main' = "overlay"
            /\ UNCHANGED <<frame, first_pending>>
    /\ UNCHANGED <<ctlVars, selVars, running, aim_enabled, mouse, pc_key,
                   ticks, keys, config, life, logger, sim>>

\* the controller as the compute call in progress has read it: the fields
\* prev_* hold what lines 92, 93, 100 and 101 found, each at its moment
SeenController(f) ==
    [controller EXCEPT !.prev_error_x = f.seen.prev_error_x,
                       !.prev_error_y = f.seen.prev_error_y,
                       !.prev_output_x = f.seen.prev_output_x,
                       !.prev_output_y = f.seen.prev_output_y]

\* an outcome of compute as the iteration keeps it
Kept(r) == Some([r EXCEPT !.libm = NoPow])

\* compute(cursor_pos, target_pos) up to its first access to the history
\* (controller.py 71-80): the error and the dead-zone test on locals, then
\* either line 82 (dead-zone path: prev_error_x is assigned) or line 92
\* (active path: prev_error_x is read).  dt is its default, 1.0.
ComputeEntry(cursor_pos, target_pos) ==
    \E error \in {Error(cursor_pos, target_pos)} :
    \E distance \in Norms(libm, error) :
    \E f \in {[frame EXCEPT !.computes = @ + 1,
                            !.compute_args = <<cursor_pos, target_pos>>,
                            !.error = error, !.distance = distance[1]]} :
       /\ libm' = distance[2]
       /\ IF InDeadZone(controller, distance[1])
          THEN /\ controller' = [controller EXCEPT !.prev_error_x = error[1]]
               /\ frame' = [f EXCEPT
                               !.result = Kept(Idle(controller, error,
                                                    distance[1], distance[2]))]
               /\ pc_main' = "dead_zone_y"
          ELSE /\ frame' = [f EXCEPT
                               !.seen.prev_error_x = controller.prev_error_x]
               /\ pc_main' = "read_error_y"
               /\ UNCHANGED controller

\* MainComputeRead that reads the cursor again for compute
MainComputeReadFreshCursor ==
    /\ pc_main = "compute"
    /\ ComputeEntry(CursorPos(mouse), TargetPos(frame))
    /\ UNCHANGED <<selVars, calls, obs, twin_ctl, running, aim_enabled,
                   mouse, pc_key, ticks, keys, config, life, first_pending,
                   logger, sim>>

\* lines 236-237: controller.compute(cursor_pos, target_pos) with the
\* cursor read at line 231 and the centre of the target, up to the first
\* access of compute to the history
MainComputeRead ==
    /\ pc_main = "compute"
    /\ ComputeEntry(CursorPos(frame.cursor_pos), TargetPos(frame))
    /\ UNCHANGED <<selVars, calls, obs, twin_ctl, running, aim_enabled,
                   mouse, pc_key, ticks, keys, config, life, first_pending,
                   logger, sim>>

\* controller.py 83-84: the dead-zone path assigns prev_error_y and returns
MainComputeDeadZoneY ==
    /\ pc_main = "dead_zone_y"
    /\ controller' = [controller EXCEPT
                          !.prev_error_y = frame.result[1].state.prev_error_y]
    /\ pc_main' = "move"
    /\ UNCHANGED <<selVars, calls, obs, twin_ctl, libm, running, aim_enabled,
                   mouse, frame, pc_key, ticks, keys, config, life,
                   first_pending, logger, sim>>

\* controller.py 93: d_y reads prev_error_y
MainComputeReadErrorY ==
    /\ pc_main = "read_error_y"
    /\ frame' = [frame EXCEPT !.seen.prev_error_y = controller.prev_error_y]
    /\ pc_main' = "read_output_x"
    /\ UNCHANGED <<ctlVars, selVars, running, aim_enabled, mouse, pc_key,
                   ticks, keys, config, life, first_pending, logger, sim>>

\* controller.py 96-100: smoothed_x reads prev_output_x
MainComputeReadOutputX ==
    /\ pc_main = "read_output_x"
    /\ frame' = [frame EXCEPT !.seen.prev_output_x = controller.prev_output_x]
    /\ pc_main' = "read_output_y"
    /\ UNCHANGED <<ctlVars, selVars, running, aim_enabled, mouse, pc_key,
                   ticks, keys, config, life, first_pending, logger, sim>>

\* controller.py 101-108: smoothed_y reads prev_output_y; lines 88-108 work
\* on the gains, the locals and the history as it was read
MainComputeReadOutputY ==
    /\ pc_main = "read_output_y"
    /\ \E f \in {[frame EXCEPT !.seen.prev_output_y = controller.prev_output_y]} :
       \E seen \in {SeenController(f)} :
       \E r \in ClampAndCommit(seen, frame.error, frame.distance,
                               Smoothed(seen, frame.error, FromInt(1)), libm) :
          /\ frame' = [f EXCEPT !.result = Kept(r),
                                !.saw_history = HasHistory(seen)]
          /\ libm' = r.libm
    /\ pc_main' = "commit"
    /\ UNCHANGED <<selVars, controller, calls, obs, twin_ctl, running,
                   aim_enabled, mouse, pc_key, ticks, keys, config, life,
                   first_pending, logger, sim>>

\* controller.py 111: self.prev_error_x = error_x
MainComputeCommit ==
    /\ pc_main = "commit"
    /\ controller' = [controller EXCEPT
                          !.prev_error_x = frame.result[1].state.prev_error_x]
    /\ pc_main' = "commit_error_y"
    /\ UNCHANGED <<selVars, calls, obs, twin_ctl, libm, running, aim_enabled,
                   mouse, frame, pc_key, ticks, keys, config, life,
                   first_pending, logger, sim>>

\* controller.py 112: self.prev_error_y = error_y
MainComputeCommitErrorY ==
    /\ pc_main = "commit_error_y"
    /\ controller' = [controller EXCEPT
                          !.prev_error_y = frame.result[1].state.prev_error_y]
    /\ pc_main' = "commit_output_x"
    /\ UNCHANGED <<selVars, calls, obs, twin_ctl, libm, running, aim_enabled,
                   mouse, frame, pc_key, ticks, keys, config, life,
                   first_pending, logger, sim>>

\* controller.py 113: self.prev_output_x = smoothed_x
MainComputeCommitOutputX ==
    /\ pc_main = "commit_output_x"
    /\ controller' = [controller EXCEPT
                          !.prev_output_x = frame.result[1].state.prev_output_x]
    /\ pc_main' = "commit_output_y"
    /\ UNCHANGED <<selVars, calls, obs, twin_ctl, libm, running, aim_enabled,
                   mouse, frame, pc_key, ticks, keys, config, life,
                   first_pending, logger, sim>>

\* controller.py 114-116: self.prev_output_y = smoothed_y, and return
MainComputeCommitOutputY ==
    /\ pc_main = "commit_output_y"
    /\ controller' = [controller EXCEPT
                          !.prev_output_y = frame.result[1].state.prev_output_y]
    /\ pc_main' = "move"
    /\ UNCHANGED <<selVars, calls, obs, twin_ctl, libm, running, aim_enabled,
                   mouse, frame, pc_key, ticks, keys, config, life,
                   first_pending, logger, sim>>

\* line 238: self.mouse.move_relative(dx, dy)
MainMove ==
    /\ pc_main = "move"
    /\ \E d \in {frame.result[1].ret} :
          /\ mouse' = MoveRelative(mouse, d[1], d[2])
          /\ frame' = [frame EXCEPT
                          !.moves = @ + 1,
                          !.moved = <<RoundPixels(d[1]), RoundPixels(d[2])>>,
                          !.moved_from = mouse,
                          !.enabled_at_move = aim_enabled]
    /\ pc_main' = "overlay"
    /\ UNCHANGED <<ctlVars, selVars, running, aim_enabled, pc_key, ticks,
                   keys, config, life, first_pending, logger, sim>>

\* lines 240-255: latency, fps, and overlay.update, which creates the
\* window on its first call and ends in processEvents (hud.py 314-327)
MainOverlay ==
    /\ pc_main = "overlay"
    /\ pc_main' = "log"
    /\ life' = [life EXCEPT
                   !.overlay = IF config.overlay_enabled THEN "open" ELSE @]
    /\ UNCHANGED <<ctlVars, selVars, running, aim_enabled, mouse, frame,
                   pc_key, ticks, keys, config, first_pending, logger, sim>>

\* lines 258-266: self.logger.log(...)
MainLog ==
    /\ pc_main = "log"
    /\ pc_main' = "count"
    /\ logger' = Log(logger, aim_enabled)
    /\ UNCHANGED <<ctlVars, selVars, running, aim_enabled, mouse, frame,
                   pc_key, ticks, keys, config, life, first_pending, sim>>

\* line 268: self.frame_count += 1, and the iteration is complete
MainCount ==
    /\ pc_main = "count"
    /\ ticks' = ticks + 1
    /\ pc_main' = "loop"
    /\ life' = [life EXCEPT
                   !.last_tick = IF frame.computes = 1 THEN "compute"
                                 ELSE IF @ = "none" THEN "none" ELSE "idle"]
    /\ UNCHANGED <<ctlVars, selVars, running, aim_enabled, mouse, frame,
                   pc_key, keys, config, first_pending, logger, sim>>

\* the statements of the loop at which the main thread can take a signal:
\* CPython raises KeyboardInterrupt where a call returns or a loop jumps
\* back, never between two assignments that follow each other (82-83,
\* 111-114)
InLoop ==
    {"loop", "detect", "select", "check", "compute", "read_error_y",
     "read_output_x", "read_output_y", "commit", "move", "overlay", "log",
     "count"}

\* lines 270-271: KeyboardInterrupt raised in the main thread somewhere in
\* the loop, between two of its steps; "except" catches it
MainInterrupt ==
    /\ pc_main \in InLoop
    /\ pc_main' = "except"
    /\ life' = [life EXCEPT !.interrupted = TRUE]
    /\ UNCHANGED <<ctlVars, selVars, running, aim_enabled, mouse, frame,
                   pc_key, ticks, keys, config, first_pending, logger, sim>>

\* KeyboardInterrupt raised inside select (target_selector.py 46-61): the
\* candidates are assigned, current_target is not yet
MainInterruptSelect ==
    /\ pc_main = "select"
    /\ SelectSeq(frame.screen_detections, NotOnCenter) # <<>>
    /\ selector' = [selector EXCEPT
                       !.candidates =
                           SelectSeq(frame.screen_detections, NotOnCenter)]
    /\ pc_main' = "except"
    /\ life' = [life EXCEPT !.interrupted = TRUE]
    /\ UNCHANGED <<ctlVars, sel_obs, twin_sel, running, aim_enabled, mouse,
                   frame, pc_key, ticks, keys, config, first_pending, logger,
                   sim>>

\* KeyboardInterrupt raised inside Logger.log (logger.py 104-122): the
\* frame is counted, no entry is appended
MainInterruptLog ==
    /\ pc_main = "log"
    /\ logger.enabled
    /\ logger' = [logger EXCEPT !.frame_count = @ + 1]
    /\ pc_main' = "except"
    /\ life' = [life EXCEPT !.interrupted = TRUE]
    /\ UNCHANGED <<ctlVars, selVars, running, aim_enabled, mouse, frame,
                   pc_key, ticks, keys, config, first_pending, sim>>

\* line 271: the print of the except clause
MainExcept ==
    /\ pc_main = "except"
    /\ pc_main' = "finally"
    /\ UNCHANGED <<ctlVars, selVars, running, aim_enabled, mouse, frame,
                   pc_key, ticks, keys, config, life, first_pending, logger,
                   sim>>

\* KeyboardInterrupt raised in the except clause: "finally" still runs,
\* and the exception leaves run() after it
MainInterruptExcept ==
    /\ pc_main = "except"
    /\ pc_main' = "finally"
    /\ life' = [life EXCEPT !.late = TRUE, !.raising = TRUE]
    /\ UNCHANGED <<ctlVars, selVars, running, aim_enabled, mouse, frame,
                   pc_key, ticks, keys, config, first_pending, logger, sim>>

\* lines 273-278: finally calls self.shutdown(), which prints
MainFinally ==
    /\ pc_main = "finally"
    /\ pc_main' = "stop_listener"
    /\ life' = [life EXCEPT !.entered = @ + 1]
    /\ UNCHANGED <<ctlVars, selVars, running, aim_enabled, mouse, frame,
                   pc_key, ticks, keys, config, first_pending, logger, sim>>

\* lines 281-282: self.keyboard_listener.stop(); a handler that is running
\* comes to its end, and no further key is delivered
MainStopListener ==
    /\ pc_main = "stop_listener"
    /\ pc_main' = "close_capture"
    /\ pc_key' = IF pc_key = "idle" THEN "stopped" ELSE pc_key
    /\ life' = [life EXCEPT !.listener = "stopped"]
    /\ UNCHANGED <<ctlVars, selVars, running, aim_enabled, mouse, frame,
                   ticks, keys, config, first_pending, logger, sim>>

\* lines 285-286: self.capture.close()
MainCloseCapture ==
    /\ pc_main = "close_capture"
    /\ pc_main' = "close_overlay"
    /\ life' = [life EXCEPT !.capture = "closed"]
    /\ UNCHANGED <<ctlVars, selVars, running, aim_enabled, mouse, frame,
                   pc_key, ticks, keys, config, first_pending, logger, sim>>

\* lines 289-290: self.overlay.close(), if the overlay is enabled
MainCloseOverlay ==
    /\ pc_main = "close_overlay"
    /\ pc_main' = "close_logger"
    /\ life' = [life EXCEPT
                   !.overlay = IF config.overlay_enabled /\ @ = "open"
                               THEN "closed" ELSE @]
    /\ UNCHANGED <<ctlVars, selVars, running, aim_enabled, mouse, frame,
                   pc_key, ticks, keys, config, first_pending, logger, sim>>

\* lines 293-302: the statistics are printed and self.logger.close()
MainCloseLogger ==
    /\ pc_main = "close_logger"
    /\ pc_main' = "closed"
    /\ life' = [life EXCEPT !.logger = "closed"]
    /\ UNCHANGED <<ctlVars, selVars, running, aim_enabled, mouse, frame,
                   pc_key, ticks, keys, config, first_pending, logger, sim>>

\* line 304: the last print; shutdown() returns, and run() returns or
\* lets the exception of the except clause go on
MainShutdownReturn ==
    /\ pc_main = "closed"
    /\ pc_main' = IF life.raising THEN "aborted" ELSE "done"
    /\ life' = [life EXCEPT !.returned = @ + 1]
    /\ UNCHANGED <<ctlVars, selVars, running, aim_enabled, mouse, frame,
                   pc_key, ticks, keys, config, first_pending, logger, sim>>

\* the statements of shutdown()
InShutdown ==
    {"stop_listener", "close_capture", "close_overlay", "close_logger",
     "closed"}

\* KeyboardInterrupt raised inside shutdown(), at its entry or after one
\* of its calls: nothing catches it, and what shutdown() had not yet
\* closed stays as it is
MainInterruptShutdown ==
    /\ pc_main \in InShutdown
    /\ pc_main' = "aborted"
    /\ life' = [life EXCEPT !.late = TRUE, !.raising = TRUE]
    /\ UNCHANGED <<ctlVars, selVars, running, aim_enabled, mouse, frame,
                   pc_key, ticks, keys, config, first_pending, logger, sim>>

\* run() has been left, by its return or by an exception
Exited == pc_main \in {"done", "aborted"}

\* on_press, key 't' (lines 187-191): flip aim_enabled; reset follows when
\* the flip switched aim assist off
PressT ==
    /\ pc_key = "idle" /\ ~Exited
    /\ keys' = keys + 1
    /\ aim_enabled' = ~aim_enabled
    /\ first_pending' = IF ~aim_enabled THEN TRUE ELSE first_pending
    /\ pc_key' = IF aim_enabled THEN "reset_error" ELSE "idle"
    /\ UNCHANGED <<ctlVars, selVars, running, mouse, pc_main, frame, ticks,
                   config, life, logger, sim>>

\* a 't' among the keys the user presses
KeyPressT == keys < MaxKeys /\ PressT

\* controller.reset() called from on_press (line 192): controller.py 120
KeyResetError ==
    /\ pc_key = "reset_error"
    /\ controller' = [controller EXCEPT !.prev_error_x = Zero(1)]
    /\ pc_key' = "reset_error_y"
    /\ UNCHANGED <<selVars, calls, obs, twin_ctl, libm, running, aim_enabled,
                   mouse, pc_main, frame, ticks, keys, config, life,
                   first_pending, logger, sim>>

\* controller.py 121
KeyResetErrorY ==
    /\ pc_key = "reset_error_y"
    /\ controller' = [controller EXCEPT !.prev_error_y = Zero(1)]
    /\ pc_key' = "reset_output"
    /\ UNCHANGED <<selVars, calls, obs, twin_ctl, libm, running, aim_enabled,
                   mouse, pc_main, frame, ticks, keys, config, life,
                   first_pending, logger, sim>>

\* controller.py 122
KeyResetOutput ==
    /\ pc_key = "reset_output"
    /\ controller' = [controller EXCEPT !.prev_output_x = Zero(1)]
    /\ pc_key' = "reset_output_y"
    /\ UNCHANGED <<selVars, calls, obs, twin_ctl, libm, running, aim_enabled,
                   mouse, pc_main, frame, ticks, keys, config, life,
                   first_pending, logger, sim>>

\* controller.py 123, and on_press returns
KeyResetOutputY ==
    /\ pc_key = "reset_output_y"
    /\ controller' = [controller EXCEPT !.prev_output_y = Zero(1)]
    /\ pc_key' = IF life.listener = "stopped" THEN "stopped" ELSE "idle"
    /\ UNCHANGED <<selVars, calls, obs, twin_ctl, libm, running, aim_enabled,
                   mouse, pc_main, frame, ticks, keys, config, life,
                   first_pending, logger, sim>>

\* on_press, key ESC (lines 184-186)
KeyPressEsc ==
    /\ pc_key = "idle" /\ ~Exited
    /\ keys < MaxKeys
    /\ keys' = keys + 1
    /\ running' = FALSE
    /\ life' = [life EXCEPT
                   !.esc_mid = IF running THEN pc_main \notin {"run", "loop"}
                               ELSE @]
    /\ UNCHANGED <<ctlVars, selVars, aim_enabled, mouse, pc_main, frame,
                   pc_key, ticks, config, first_pending, logger, sim>>

\* the user moves the physical mouse, here by 10 pixels to the right, while
\* an iteration is between its select and its compute (once per iteration)
UserMovesMouse ==
    /\ pc_main \in {"check", "compute"}
    /\ ~frame.nudged
    /\ mouse' = <<mouse[1] + 10 * Q, mouse[2]>>
    /\ frame' = [frame EXCEPT !.nudged = TRUE]
    /\ UNCHANGED <<ctlVars, selVars, running, aim_enabled, pc_main, pc_key,
                   ticks, keys, config, life, first_pending, logger, sim>>

SystemInit ==
    /\ controller = DefaultController /\ calls = 0 /\ obs = NoCall
    /\ twin_ctl = None /\ libm = NoPow
    /\ SelInit /\ SysStart
    /\ config \in Configs

\* a step of the main thread that is no signal
MainStep ==
    \/ MainRun \/ MainLoopTest \/ MainDetect \/ MainSelect \/ MainCheck
    \/ MainComputeRead \/ MainComputeDeadZoneY
    \/ MainComputeReadErrorY \/ MainComputeReadOutputX \/ MainComputeReadOutputY
    \/ MainComputeCommit \/ MainComputeCommitErrorY
    \/ MainComputeCommitOutputX \/ MainComputeCommitOutputY
    \/ MainMove \/ MainOverlay \/ MainLog \/ MainCount
    \/ MainExcept \/ MainFinally \/ MainStopListener \/ MainCloseCapture
    \/ MainCloseOverlay \/ MainCloseLogger \/ MainShutdownReturn

SystemNext ==
    \/ MainStep
    \/ MainInterruptRun
    \/ MainInterrupt \/ MainInterruptSelect \/ MainInterruptLog
    \/ MainInterruptExcept \/ MainInterruptShutdown
    \/ KeyPressT \/ KeyResetError \/ KeyResetErrorY
    \/ KeyResetOutput \/ KeyResetOutputY \/ KeyPressEsc
    \/ UserMovesMouse

SystemSpec == SystemInit /\ [][SystemNext]_vars

----------------------------------------------------------------------------
(* One engagement: the main loop with a user who presses 't' once, at any  *)
(* moment, to switch aim assist on, and then leaves the keyboard alone.    *)

\* Bounds of the model
MaxEngagedTicks == 3

\* line 215: while self.running (nobody presses ESC here)
EngagedLoopTest ==
    /\ pc_main = "loop"
    /\ ticks < MaxEngagedTicks
    /\ pc_main' = IF running THEN "detect" ELSE "finally"
    /\ frame' = NoFrame
    /\ UNCHANGED <<ctlVars, selVars, running, aim_enabled, mouse, pc_key,
                   ticks, keys, config, life, first_pending, logger, sim>>

\* the one 't' press: aim assist goes from off to on
EngagedKeyPressT == keys = 0 /\ PressT

EngagedInit ==
    /\ controller = DefaultController /\ calls = 0 /\ obs = NoCall
    /\ twin_ctl = None /\ libm = NoPow
    /\ SelInit /\ SysInit

EngagedNext ==
    \/ MainRun \/ EngagedLoopTest \/ MainDetect \/ MainSelect \/ MainCheck
    \/ MainComputeRead \/ MainComputeDeadZoneY
    \/ MainComputeReadErrorY \/ MainComputeReadOutputX \/ MainComputeReadOutputY
    \/ MainComputeCommit \/ MainComputeCommitErrorY
    \/ MainComputeCommitOutputX \/ MainComputeCommitOutputY
    \/ MainMove \/ MainOverlay \/ MainLog \/ MainCount
    \/ EngagedKeyPressT

EngagedSpec == EngagedInit /\ [][EngagedNext]_vars

----------------------------------------------------------------------------
(* Several engagements: the main loop with a user who presses 't' a few    *)
(* times, at any moments, and no other key.                                *)

\* Bounds of the model
MaxToggles == 3

\* a 't' press: aim assist is switched on or off
TogglePressT == keys < MaxToggles /\ PressT

ToggleInit ==
    /\ controller = DefaultController /\ calls = 0 /\ obs = NoCall
    /\ twin_ctl = None /\ libm = NoPow
    /\ SelInit /\ SysInit

ToggleNext ==
    \/ MainRun \/ MainLoopTest \/ MainDetect \/ MainSelect \/ MainCheck
    \/ MainComputeRead \/ MainComputeDeadZoneY
    \/ MainComputeReadErrorY \/ MainComputeReadOutputX \/ MainComputeReadOutputY
    \/ MainComputeCommit \/ MainComputeCommitErrorY
    \/ MainComputeCommitOutputX \/ MainComputeCommitOutputY
    \/ MainMove \/ MainOverlay \/ MainLog \/ MainCount
    \/ TogglePressT \/ KeyResetError \/ KeyResetErrorY
    \/ KeyResetOutput \/ KeyResetOutputY

ToggleSpec == ToggleInit /\ [][ToggleNext]_vars

----------------------------------------------------------------------------
(* The way out of run(): the main loop with a user who may switch aim      *)
(* assist on with a first 't', presses ESC at any moment, and sends        *)
(* KeyboardInterrupt (Ctrl-C) at any moment.                               *)

\* the main thread has a next statement to run: run() has not been left.
\* This is the guard of MainStep (the model ends a loop that still runs
\* after MaxTicks iterations)
MainCanStep ==
    /\ ~Exited
    /\ pc_main = "loop" => (ticks < MaxTicks \/ ~running)

\* The main thread is always scheduled again and every call it makes
\* returns, so each statement of run() comes to its end: weak fairness of
\* MainStep, WF_vars(MainStep), with ENABLED <<MainStep>>_vars written as
\* the guard it is
MainFair == []<>(~MainCanStep) \/ []<><<MainStep>>_vars

ExitNext ==
    \/ MainStep
    \/ MainInterruptRun
    \/ MainInterrupt \/ MainInterruptSelect \/ MainInterruptLog
    \/ MainInterruptExcept \/ MainInterruptShutdown
    \/ EngagedKeyPressT \/ KeyPressEsc

ExitSpec == SystemInit /\ [][ExitNext]_vars /\ MainFair

----------------------------------------------------------------------------
(* The simulation of controller.py (lines 156-190): a stationary target,   *)
(* the cursor advanced each tick by the vector compute returned, the       *)
(* gains of line 159-165, dt = 1.                                          *)

\* range(20) of line 176
SimTicks == 20

\* Where the stationary target is: (100.0, 100.0) in the code (line 169);
\* the others are the same simulation with another target_x, target_y.  One
\* is within the dead zone from the start, one exactly on its edge, some
\* close enough for the loop to break, some too far for that.  The far
\* ones lie on an axis or a diagonal: there the two squares of a norm
\* are one power or an exact zero, which keeps the runs that differ in a
\* power few.
SimTargets ==
    {Pt(10000, 10000), Pt(10000, 0), Pt(0, -4000), Pt(-2500, 0),
     Pt(1200, 1200), Pt(-800, 600), Pt(300, 400), Pt(200, -100),
     Pt(0, 700)}

\* the simulation at line 176, before its first tick: the controller of
\* lines 159-165, the cursor at (0.0, 0.0) (line 168).  i: the ticks made;
\* delta: (dx, dy) of the last tick; distance: the local of line 184;
\* broke: the loop was left by its break
Simulation(target) ==
    [pc |-> "tick", cursor |-> Pt(0, 0), target |-> target, i |-> 0,
     delta |-> NoPoint, distance |-> Zero(1), broke |-> FALSE]

\* lines 177-190, one pass of the loop body: compute, the cursor advanced
\* by what it returned, the distance, and the break where it is under
\* dead_zone
LoopTick ==
    /\ sim.pc = "tick"
    /\ sim.i < SimTicks
    /\ \E r \in Compute(controller, sim.cursor, sim.target, FromInt(1), libm) :
       \E cursor \in {<<FAdd(sim.cursor[1], r.ret[1]),
                        FAdd(sim.cursor[2], r.ret[2])>>} :
       \E distance \in Norms(r.libm, Error(cursor, sim.target)) :
          /\ r.path # "raise"
          /\ controller' = r.state
          /\ libm' = distance[2]
          /\ sim' = [sim EXCEPT
                        !.cursor = cursor, !.i = @ + 1, !.delta = r.ret,
                        !.distance = distance[1],
                        !.broke = FLess(distance[1], controller.dead_zone),
                        !.pc = IF FLess(distance[1], controller.dead_zone)
                               THEN "done" ELSE "tick"]
    /\ UNCHANGED <<selVars, calls, obs, twin_ctl, running, aim_enabled,
                   mouse, pc_main, frame, pc_key, ticks, keys, config, life,
                   first_pending, logger>>

\* line 176: range(20) is exhausted, the loop ends without a break
LoopEnd ==
    /\ sim.pc = "tick"
    /\ sim.i = SimTicks
    /\ sim' = [sim EXCEPT !.pc = "done"]
    /\ UNCHANGED <<ctlVars, selVars, running, aim_enabled, mouse, pc_main,
                   frame, pc_key, ticks, keys, config, life, first_pending,
                   logger>>

LoopInit ==
    /\ controller = DefaultController /\ calls = 0 /\ obs = NoCall
    /\ twin_ctl = None /\ libm = NoPow
    /\ SelInit
    /\ running = TRUE /\ aim_enabled = FALSE /\ mouse = Px(900, 540)
    /\ pc_main = "run" /\ frame = NoFrame /\ pc_key = "idle" /\ ticks = 0
    /\ keys = 0 /\ first_pending = FALSE /\ life = Started
    /\ config = DefaultConfig /\ logger = DefaultLogger
    /\ \E target \in SimTargets : sim = Simulation(target)

LoopNext == LoopTick \/ LoopEnd

LoopSpec == LoopInit /\ [][LoopNext]_vars

----------------------------------------------------------------------------
(* MouseController (core/mouse_control.py) driven through its API.         *)

\* mouse.move_absolute(x, y)
CallMoveAbsolute ==
    /\ calls < MaxCalls
    /\ \E p \in {Pt(90000, 54000), Pt(96050, 54099), Pt(-50, -150),
                Pt(-199, 250)} :
          mouse' = MoveAbsolute(p[1], p[2])
    /\ calls' = calls + 1
    /\ UNCHANGED <<selVars, controller, obs, twin_ctl, libm, running,
                   aim_enabled, pc_main, frame, pc_key, ticks, keys, config,
                   life, first_pending, logger, sim>>

\* mouse.move_relative(dx, dy)
CallMoveRelative ==
    /\ calls < MaxCalls
    /\ \E d \in {Pt(0, 0), Pt(1450, -1450), Pt(2549, 51), Pt(-250, 150)} :
          mouse' = MoveRelative(mouse, d[1], d[2])
    /\ calls' = calls + 1
    /\ UNCHANGED <<selVars, controller, obs, twin_ctl, libm, running,
                   aim_enabled, pc_main, frame, pc_key, ticks, keys, config,
                   life, first_pending, logger, sim>>

MouseInit == Init

MouseNext == CallMoveAbsolute \/ CallMoveRelative

MouseSpec == MouseInit /\ [][MouseNext]_vars

----------------------------------------------------------------------------
(* The logger driven through log() by an arbitrary caller.                 *)

\* Logger.log called once more (calls counts the calls made)
CallLog ==
    /\ calls < MaxLogs
    /\ \E aim_assist_enabled \in BOOLEAN :
          logger' = Log(logger, aim_assist_enabled)
    /\ calls' = calls + 1
    /\ UNCHANGED <<controller, obs, twin_ctl, libm, selVars, running,
                   aim_enabled, mouse, pc_main, frame, pc_key, ticks, keys,
                   config, life, first_pending, sim>>

LoggerInit ==
    /\ controller = DefaultController /\ calls = 0 /\ obs = NoCall
    /\ twin_ctl = None /\ libm = NoPow
    /\ SelInit
    /\ \E enabled \in BOOLEAN, log_interval \in LogIntervals :
          logger = NewLogger(enabled, log_interval)
    /\ running = TRUE /\ aim_enabled = FALSE /\ mouse = Px(900, 540)
    /\ pc_main = "run" /\ frame = NoFrame /\ pc_key = "idle"
    /\ ticks = 0 /\ keys = 0 /\ first_pending = FALSE
    /\ life = Started /\ config = DefaultConfig /\ sim = NoSim

LoggerNext == CallLog

LoggerSpec == LoggerInit /\ [][LoggerNext]_vars

----------------------------------------------------------------------------
(* Claims about AimController, checked under Spec.                         *)
(* The statements compare the doubles the controller computes in exact     *)
(* arithmetic: a double is a binary fraction, and sums and products of     *)
(* binary fractions are binary fractions.                                  *)

\* An exact number: n * 2^e for a wide integer n of either sign
Exact(a) ==
    [n |-> IF a.s < 0 THEN WNeg(a.m) ELSE a.m, e |-> a.e]

\* the exact number of an integer
XInt(k) == [n |-> IF k < 0 THEN WNeg(Wide(-k)) ELSE Wide(k), e |-> 0]

\* the n of p at the exponent e <= p.e
XAt(p, e) ==
    IF WSign(p.n) < 0 THEN WNeg(ShiftLeft(WNeg(p.n), p.e - e))
    ELSE ShiftLeft(p.n, p.e - e)

\* p + q, -p, p - q, p * q, p * 2^k
XAdd(p, q) ==
    Let(IF p.e < q.e THEN p.e ELSE q.e, LAMBDA e :
        [n |-> WAdd(XAt(p, e), XAt(q, e)), e |-> e])
XNeg(p) == [p EXCEPT !.n = WNeg(@)]
XSub(p, q) == XAdd(p, XNeg(q))
XMul(p, q) ==
    Let(WMul(WAbs(p.n), WAbs(q.n)), LAMBDA n :
        [n |-> IF WSign(p.n) * WSign(q.n) < 0 THEN WNeg(n) ELSE n,
         e |-> p.e + q.e])
XScale(p, k) == [p EXCEPT !.e = @ + k]

\* the sign of p, |p|, p <= q and p < q
XSign(p) == WSign(p.n)
XAbs(p) == [p EXCEPT !.n = WAbs(@)]
XLeq(p, q) == XSign(XSub(p, q)) <= 0
XLess(p, q) == XSign(XSub(p, q)) < 0

\* x^2 + y^2 of a vector of doubles, exact
MagSq(v) ==
    XAdd(XMul(Exact(v[1]), Exact(v[1])), XMul(Exact(v[2]), Exact(v[2])))

\* p^2
XSq(p) == XMul(p, p)

\* the gains of a controller
Gains(c) == <<c.kp, c.kd, c.alpha, c.dead_zone, c.max_speed>>

\* the history fields of a controller
History(c) ==
    <<c.prev_error_x, c.prev_error_y, c.prev_output_x, c.prev_output_y>>

\* a freshly constructed controller with the gains of c
Fresh(c) == NewController(c.kp, c.kd, c.alpha, c.dead_zone, c.max_speed)

\* the step is one compute call, one reset call, one update_params call
ComputeStep == calls' = calls + 1 /\ obs'.op = "compute"
ResetStep == calls' = calls + 1 /\ obs'.op = "reset"
UpdateParamsStep == calls' = calls + 1 /\ obs'.op = "update_params"

\* the last call was a compute that returned, with max_speed >= 0
Returned ==
    /\ obs.op = "compute" /\ obs.path # "raise"
    /\ ~FLess(controller.max_speed, Zero(1))

\* the magnitude of v is <= m * (1 + 2^-k), compared on the squares
WithinLimit(v, m, k) ==
    XLeq(MagSq(v), XSq(XAdd(Exact(m), XScale(Exact(m), -k))))

\* C1 as stated: the vector compute returns has Euclidean magnitude
\* <= the max_speed in force (max_speed >= 0, dt > 0), on the dead-zone path
\* and on the active path.  The magnitude is that of the two doubles
\* returned, in exact arithmetic.
C1_ClampExact ==
    Returned => XLeq(MagSq(obs.ret), XSq(Exact(controller.max_speed)))

\* C1 amended: the vector compute returns has Euclidean magnitude
\* <= max_speed * (1 + 2^-50) (max_speed >= 0, dt > 0), on both paths: the
\* clamp scales by the rounded quotient of max_speed and a rounded speed,
\* and rounds each product, which can leave the vector longer than
\* max_speed by a few units of the last place.
C1_ClampWithinTolerance ==
    Returned => WithinLimit(obs.ret, controller.max_speed, 50)

\* a compute call, after earlier calls, whose smoothed vector was faster
\* than a positive max_speed and was scaled down to a vector that is
\* longer than max_speed
C1_Witness ==
    /\ Returned /\ obs.path = "active" /\ calls >= 2
    /\ FGreater(controller.max_speed, Zero(1))
    /\ FGreater(obs.speed, controller.max_speed)
    /\ obs.ret # obs.smoothed
    /\ ~IsZero(obs.ret[1]) /\ ~IsZero(obs.ret[2])
    /\ ~XLeq(MagSq(obs.ret), XSq(Exact(controller.max_speed)))

\* target - cursor of the last call, per axis, exact
ErrorOf(o) ==
    <<XSub(Exact(o.target[1]), Exact(o.cursor[1])),
      XSub(Exact(o.target[2]), Exact(o.cursor[2]))>>

\* the double a is the exact number p rounded: they differ by half a unit
\* of the last place of a at most
RoundingOf(a, p) ==
    XLeq(XAbs(XSub(Exact(a), p)), XScale(XAbs(p), -Prec))

\* C4: compute takes the dead-zone path, returning exactly (0.0, 0.0), if
\* and only if |target - cursor| < dead_zone, strictly: at distance
\* dead_zone the active path runs, as for cursor (0,0), target (3,4),
\* dead_zone 5.  The path is decided by the distance of the call and
\* dead_zone alone, whatever the history and the path of the call before.
\* Where the exact distance is under dead_zone by more than the rounding
\* of the arithmetic (2^-50) the call is on the dead-zone path, where it is
\* over by more than that on the active path, and in between the distance
\* the call computed (a double within that rounding of the exact one)
\* decides.
C4_DeadZoneStrictMemoryless ==
    (obs.op = "compute" /\ obs.path # "raise") =>
        \E dSq \in {XAdd(XSq(ErrorOf(obs)[1]), XSq(ErrorOf(obs)[2]))} :
        \E zSq \in {XSq(Exact(controller.dead_zone))} :
        \E margin \in {XScale(dSq, -49)} :
        \E positive \in {FGreater(controller.dead_zone, Zero(1))} :
            /\ obs.path \in {"dead_zone", "active"}
            /\ (positive /\ XLess(XAdd(dSq, margin), zSq))
                   => obs.path = "dead_zone"
            /\ (~positive \/ XLess(zSq, XSub(dSq, margin)))
                   => obs.path = "active"
            /\ XLeq(XAbs(XSub(XSq(Exact(obs.distance)), dSq)), margin)
            /\ (obs.path = "dead_zone")
                   <=> FLess(obs.distance, controller.dead_zone)
            /\ obs.path = "dead_zone" => obs.ret = <<Zero(1), Zero(1)>>
            /\ (obs.cursor = Pt(0, 0) /\ obs.target = Pt(300, 400)
                    /\ controller.dead_zone = Float(5 * Q))
                   => obs.path = "active"

\* the boundary case, reached by a controller that holds history from an
\* earlier compute: distance 5.0 with dead_zone 5 runs the active path
C4_Witness ==
    /\ obs.op = "compute" /\ obs.prevOp = "compute"
    /\ obs.cursor = Pt(0, 0) /\ obs.target = Pt(300, 400)
    /\ controller.dead_zone = Float(5 * Q)
    /\ HasHistory(controller)
    /\ obs.path = "active" /\ obs.ret # <<Zero(1), Zero(1)>>

\* C5: after reset() the controller is indistinguishable from a freshly
\* constructed one with the same gains: every compute call made on both
\* from then on returns the same vector and leaves the same prev_error,
\* prev_output and gains; reset() leaves the gains alone, and a second
\* reset() right after the first changes nothing.
C5_ResetIdempotence ==
    /\ []((obs.op = "compute" /\ twin_ctl # None) =>
             /\ obs.twin # None
             /\ obs.ret = obs.twin[1].ret /\ obs.path = obs.twin[1].path
             /\ controller = twin_ctl[1])
    /\ [](obs.op = "reset" =>
             /\ twin_ctl # None
             /\ History(controller) = <<Zero(1), Zero(1), Zero(1), Zero(1)>>)
    /\ [][ResetStep => Gains(controller') = Gains(controller)]_vars
    /\ [][(ResetStep /\ obs.op = "reset") => controller' = controller]_vars

\* reset() was called on a controller that held history, and the compute
\* made since on it and on the fresh controller took the active path
C5_Witness ==
    /\ obs.op = "compute" /\ obs.prevOp = "reset" /\ obs.dirty
    /\ obs.twin # None /\ obs.path = "active"
    /\ ~IsZero(obs.ret[1])

\* C8: a compute call on the dead-zone path sets prev_error to the error
\* of the call (target - cursor, rounded to a double) and leaves
\* prev_output (both axes) and every gain as they were before the call.
C8_DeadZoneFrame ==
    [][(ComputeStep /\ obs'.path = "dead_zone") =>
          /\ RoundingOf(controller'.prev_error_x, ErrorOf(obs')[1])
          /\ RoundingOf(controller'.prev_error_y, ErrorOf(obs')[2])
          /\ controller'.prev_output_x = controller.prev_output_x
          /\ controller'.prev_output_y = controller.prev_output_y
          /\ Gains(controller') = Gains(controller)]_vars

\* a dead-zone call that found a non-zero prev_output and left it in place
C8_Witness ==
    /\ obs.op = "compute" /\ obs.path = "dead_zone"
    /\ ~IsZero(controller.prev_output_x)
    /\ ~IsZero(controller.prev_error_x)
    /\ controller.prev_error_x = Float(200)

\* C9: after a compute call on the active path prev_error is the error of
\* the call (target - cursor, rounded to a double) and prev_output is
\* exactly the vector returned: the clamped one, not the vector before the
\* clamp.
C9_CommitClamped ==
    [][(ComputeStep /\ obs'.path = "active") =>
          /\ RoundingOf(controller'.prev_error_x, ErrorOf(obs')[1])
          /\ RoundingOf(controller'.prev_error_y, ErrorOf(obs')[2])
          /\ <<controller'.prev_output_x, controller'.prev_output_y>> = obs'.ret
          /\ Gains(controller') = Gains(controller)]_vars

\* an active call whose clamp changed the vector: returned # smoothed
C9_Witness ==
    /\ obs.op = "compute" /\ obs.path = "active"
    /\ obs.ret # obs.smoothed /\ ~IsZero(obs.ret[1])
    /\ <<controller.prev_output_x, controller.prev_output_y>> = obs.ret
    /\ <<controller.prev_output_x, controller.prev_output_y>> # obs.smoothed

\* dt times the reference value of one axis before the clamp,
\*   alpha * (kp * e + kd * (e - prev_e) / dt) + (1 - alpha) * prev_out,
\* in exact arithmetic, as its three terms
RefTerms(c, e, prev_e, prev_out, dt) ==
    <<XMul(XMul(XMul(Exact(c.alpha), Exact(c.kp)), e), Exact(dt)),
      XMul(XMul(Exact(c.alpha), Exact(c.kd)), XSub(e, Exact(prev_e))),
      XMul(XMul(XSub(XInt(1), Exact(c.alpha)), Exact(prev_out)), Exact(dt))>>

\* the sum of three exact numbers, and of their magnitudes
Sum3(t) == XAdd(XAdd(t[1], t[2]), t[3])
AbsSum3(t) == XAdd(XAdd(XAbs(t[1]), XAbs(t[2])), XAbs(t[3]))

\* the reference of the call that leads from controller to obs', per axis,
\* each times dt: its value, and the rounding the doubles may be off it
\* (2^-49 of the magnitude of its terms)
Reference(o) ==
    [x |-> RefTerms(controller, ErrorOf(o)[1], controller.prev_error_x,
                    controller.prev_output_x, o.dt),
     y |-> RefTerms(controller, ErrorOf(o)[2], controller.prev_error_y,
                    controller.prev_output_y, o.dt)]
RefSlack(t) == XScale(AbsSum3(t), -49)

\* the double a, taken dt times, is the reference t up to its rounding
MatchesAxis(a, t, dt) ==
    XLeq(XAbs(XSub(XMul(Exact(a), Exact(dt)), Sum3(t))), RefSlack(t))

\* the vector v is the reference unclamped
MatchesUnclamped(v, ref, dt) ==
    MatchesAxis(v[1], ref.x, dt) /\ MatchesAxis(v[2], ref.y, dt)

\* x * b - y * a and x * a + y * b of two exact vectors
XCross(v, w) == XSub(XMul(v[1], w[2]), XMul(v[2], w[1]))
XDot(v, w) == XAdd(XMul(v[1], w[1]), XMul(v[2], w[2]))

\* the vector of doubles v points the way the exact vector w does, within
\* 2^-k of a radian: (v x w)^2 <= 2^-2k |v|^2 |w|^2 and v . w > 0
Along(v, w, k) ==
    \E ev \in {<<Exact(v[1]), Exact(v[2])>>} :
       /\ XLeq(XSq(XCross(ev, w)),
               XScale(XMul(XDot(ev, ev), XDot(w, w)), -2 * k))
       /\ XSign(XDot(ev, w)) > 0

\* the magnitude of v is m within 2^-k of m
LengthIs(v, m, k) ==
    /\ WithinLimit(v, m, k)
    /\ XLeq(XSq(XSub(Exact(m), XScale(Exact(m), -k))), MagSq(v))

\* the vector v is the reference clamped to max_speed m: it points the
\* way the reference does and is m long, up to the rounding
MatchesClamped(v, ref, m) ==
    Along(v, <<Sum3(ref.x), Sum3(ref.y)>>, 40) /\ LengthIs(v, m, 50)

\* the reference is faster than max_speed m by more than the rounding, or
\* slower by more than the rounding (k: 2^-k of the square)
RefFaster(ref, m, dt, k) ==
    \E r2 \in {XAdd(XSq(Sum3(ref.x)), XSq(Sum3(ref.y)))} :
        XLess(XSq(XMul(Exact(m), Exact(dt))), XSub(r2, XScale(r2, -k)))
RefSlower(ref, m, dt, k) ==
    \E r2 \in {XAdd(XSq(Sum3(ref.x)), XSq(Sum3(ref.y)))} :
        XLess(XAdd(r2, XScale(r2, -k)), XSq(XMul(Exact(m), Exact(dt))))

SmoothedOf(o) == <<Exact(o.smoothed[1]), Exact(o.smoothed[2])>>

\* the last call was on the active path with max_speed > 0
Clamping ==
    /\ obs.op = "compute" /\ obs.path = "active"
    /\ FGreater(controller.max_speed, Zero(1))

\* the vector before the clamp is longer than max_speed, in exact
\* arithmetic
Saturated ==
    XLess(XSq(Exact(controller.max_speed)), MagSq(obs.smoothed))

\* C11 as stated: when the smoothed vector's magnitude exceeds max_speed
\* (max_speed > 0) the returned vector is a positive scalar multiple of the
\* smoothed vector with magnitude exactly max_speed; otherwise the smoothed
\* vector is returned unchanged.
C11_ClampSaturatesExactly ==
    Clamping =>
        IF Saturated
        THEN /\ XSign(XCross(<<Exact(obs.ret[1]), Exact(obs.ret[2])>>,
                             SmoothedOf(obs))) = 0
             /\ XSign(XDot(<<Exact(obs.ret[1]), Exact(obs.ret[2])>>,
                           SmoothedOf(obs))) > 0
             /\ XSign(XSub(MagSq(obs.ret),
                           XSq(Exact(controller.max_speed)))) = 0
        ELSE obs.ret = obs.smoothed

\* the smoothed vector is longer than max_speed by more than 2^-k of it,
\* or shorter by more than that
Faster(k) ==
    XLess(XSq(XAdd(Exact(controller.max_speed),
                   XScale(Exact(controller.max_speed), -k))),
          MagSq(obs.smoothed))
Slower(k) ==
    XLess(MagSq(obs.smoothed),
          XSq(XSub(Exact(controller.max_speed),
                   XScale(Exact(controller.max_speed), -k))))

\* C11 amended: when the smoothed vector's magnitude exceeds max_speed
\* (max_speed > 0) the returned vector points the way the smoothed vector
\* does and has magnitude max_speed, both up to the rounding of the
\* doubles (the direction within 2^-50 of a radian, each component with
\* the sign of the smoothed one, the magnitude within 2^-50 of max_speed);
\* when it is below max_speed the smoothed vector is returned unchanged,
\* exactly; within 2^-50 of max_speed either is the case.
C11_ClampSaturatesWithinRounding ==
    Clamping =>
        \E scaled \in {/\ Along(obs.ret, SmoothedOf(obs), 50)
                       /\ LengthIs(obs.ret, controller.max_speed, 50)
                       /\ obs.ret[1].s = obs.smoothed[1].s
                       /\ obs.ret[2].s = obs.smoothed[2].s} :
            /\ Faster(50) => scaled
            /\ Slower(50) => obs.ret = obs.smoothed
            /\ scaled \/ obs.ret = obs.smoothed

\* a saturated call with both components at work, whose returned vector is
\* not exactly parallel to the smoothed one
C11_Witness ==
    /\ Clamping /\ Saturated /\ Faster(50)
    /\ ~IsZero(obs.smoothed[1]) /\ ~IsZero(obs.smoothed[2])
    /\ XSign(XCross(<<Exact(obs.ret[1]), Exact(obs.ret[2])>>,
                    SmoothedOf(obs))) # 0
    /\ obs.ret # obs.smoothed

\* the stored prev_output of c has magnitude <= max_speed, exactly
BaselineBounded(c) ==
    XLeq(MagSq(<<c.prev_output_x, c.prev_output_y>>), XSq(Exact(c.max_speed)))

\* the same up to the rounding of the clamp: <= max_speed * (1 + 2^-50)
BaselineWithinRounding(c) ==
    WithinLimit(<<c.prev_output_x, c.prev_output_y>>, c.max_speed, 50)

\* max_speed of c is >= 0
Limited(c) == ~FLess(c.max_speed, Zero(1))

\* C21 as stated: with max_speed >= 0 held constant, after any sequence of
\* compute (dt > 0) and reset calls the stored prev_output has magnitude
\* <= max_speed: it has after construction, every compute and every reset
\* keeps it so, and an active-path compute makes it so.
C21_BaselineBounded ==
    /\ [](calls = 0 => BaselineBounded(controller))
    /\ [][((ComputeStep \/ ResetStep) /\ Limited(controller)
              /\ BaselineBounded(controller))
              => BaselineBounded(controller')]_vars
    /\ []((obs.op = "compute" /\ obs.path = "active" /\ Limited(controller))
              => BaselineBounded(controller))

\* C21 amended: the same with magnitude <= max_speed * (1 + 2^-50), the
\* rounding of the clamp's arithmetic; a max_speed lowered through
\* update_params leaves the stored prev_output as it was, which a
\* dead-zone compute keeps and the next active-path compute replaces by a
\* bounded one.
C21_BaselineWithinRounding ==
    /\ [](calls = 0 => BaselineWithinRounding(controller))
    /\ [][((ComputeStep \/ ResetStep) /\ Limited(controller)
              /\ BaselineWithinRounding(controller))
              => BaselineWithinRounding(controller')]_vars
    /\ []((obs.op = "compute" /\ obs.path = "active" /\ Limited(controller))
              => BaselineWithinRounding(controller))
    /\ [][UpdateParamsStep
              => /\ controller'.prev_output_x = controller.prev_output_x
                 /\ controller'.prev_output_y = controller.prev_output_y]_vars

\* max_speed was lowered below the stored prev_output's magnitude, and a
\* dead-zone compute made since has left that prev_output in place
C21_Witness ==
    /\ obs.op = "compute" /\ obs.path = "dead_zone"
    /\ obs.prevOp = "update_params"
    /\ Limited(controller)
    /\ ~BaselineWithinRounding(controller)

\* what move_relative sends to the mouse for the vector d
Applied(d) == <<RoundPixels(d[1]), RoundPixels(d[2])>>

\* C24: the integer displacement sent to the mouse for a vector compute
\* returned, (round(dx), round(dy)), has Euclidean magnitude <= max_speed
\* (max_speed >= 0), for every compute output.
C24_AppliedWithinLimit ==
    Returned =>
        XLeq(XInt(SumSq(Applied(obs.ret)[1], Applied(obs.ret)[2])),
             XSq(Exact(controller.max_speed)))

----------------------------------------------------------------------------
(* Claims about AimController under out-of-contract calls, checked under   *)
(* MisuseSpec.                                                             *)

\* C12: update_params sets exactly the parameters passed, to the values
\* given (zero, negative max_speed and alpha > 1 included, nothing
\* validated), keeps every parameter not passed, and leaves prev_error and
\* prev_output unchanged.
C12_PartialUpdate ==
    [][UpdateParamsStep =>
          LET a == obs'.args
              old == Gains(controller)
              new == Gains(controller')
          IN  /\ \A i \in 1..5 :
                     new[i] = IF a[i] = None THEN old[i] ELSE a[i][1]
              /\ History(controller') = History(controller)]_vars

\* update_params(kp=0, alpha=1.5, max_speed=-1) on a controller holding
\* history: the three took their values, kd and dead_zone kept theirs
C12_Witness ==
    /\ obs.op = "update_params" /\ obs.prevOp = "compute"
    /\ obs.args = <<Some(Float(0)), None, Some(Float(150)), None,
                    Some(Float(-Q))>>
    /\ Gains(controller) =
           <<Float(0), Float(5), Float(150), Float(5 * Q), Float(-Q)>>
    /\ HasHistory(controller)

\* C18: a compute call with dt = 0 or dt < 0 still completes and yields a
\* movement vector for that tick rather than failing; the controller is
\* usable on the next valid tick and after reset() is a fresh controller.
C18_NoFatalState ==
    /\ (obs.op = "compute" /\ ~FGreater(obs.dt, Zero(1))) =>
           obs.path \in {"dead_zone", "active"}
    /\ obs.op = "reset" => controller = Fresh(controller)

----------------------------------------------------------------------------
(* Claims about Logger, checked under LoggerSpec.                          *)

\* C26: for an enabled Logger with log_interval N >= 1, after k log() calls
\* frame_count = k, exactly floor(k / N) entries have been appended, and
\* their frame_id values are N, 2N, 3N, ... in order; for a disabled Logger
\* log() changes neither frame_count nor entries.
C26_EveryNthFrame ==
    LET k == calls
        N == logger.log_interval
    IN  IF logger.enabled
        THEN /\ logger.frame_count = k
             /\ Len(logger.entries) = k \div N
             /\ \A i \in 1..Len(logger.entries) :
                    logger.entries[i].frame_id = i * N
        ELSE logger.frame_count = 0 /\ logger.entries = <<>>

\* five calls on an enabled logger of interval 2: frames 2 and 4 were kept
C26_Witness ==
    /\ logger.enabled /\ logger.log_interval = 2 /\ calls = 5
    /\ logger.frame_count = 5
    /\ Len(logger.entries) = 2
    /\ logger.entries[1].frame_id = 2 /\ logger.entries[2].frame_id = 4

----------------------------------------------------------------------------
(* Claims about TargetSelector, checked under SelectorSpec.                *)

\* the box's rectangle contains the self-anchor (960, 540), edges included
ContainsAnchor(b) ==
    /\ 2 * b.x1 <= 960 * Q /\ 960 * Q <= 2 * b.x2
    /\ 2 * b.y1 <= 540 * Q /\ 540 * Q <= 2 * b.y2

\* the anchor lies exactly on an edge or a corner of the box
AnchorOnBoundary(b) ==
    /\ ContainsAnchor(b)
    /\ \/ 2 * b.x1 = 960 * Q \/ 2 * b.x2 = 960 * Q
       \/ 2 * b.y1 = 540 * Q \/ 2 * b.y2 = 540 * Q

\* the squared distance from the box's centre to the point p, in 1/Q^2
\* (the corners of a box count 2/Q, their sum is twice the centre in 2/Q)
CentreDistSq(b, p) ==
    (b.x1 + b.x2 - p[1]) * (b.x1 + b.x2 - p[1])
        + (b.y1 + b.y2 - p[2]) * (b.y1 + b.y2 - p[2])

\* the boxes held by a sequence
Elems(seq) == {seq[i] : i \in 1..Len(seq)}

\* C2: select never returns, and never stores in candidates or
\* current_target, a box whose rectangle contains the self-anchor, edges and
\* corners included.
C2_Exclusion ==
    sel_obs.op = "select" =>
        /\ sel_obs.ret # None => ~ContainsAnchor(sel_obs.ret[1])
        /\ \A b \in Elems(selector.candidates) : ~ContainsAnchor(b)
        /\ selector.current_target # None =>
               ~ContainsAnchor(selector.current_target[1])
        /\ \A b \in Elems(sel_obs.detections) :
               AnchorOnBoundary(b) =>
                   /\ b \notin Elems(selector.candidates)
                   /\ sel_obs.ret # Some(b)

\* a call whose input holds a box with the anchor on its boundary, next to a
\* box that survives and is returned
C2_Witness ==
    /\ sel_obs.op = "select" /\ sel_obs.ret # None
    /\ \E b \in Elems(sel_obs.detections) : AnchorOnBoundary(b)
    /\ Len(selector.candidates) < Len(sel_obs.detections)

\* the number of boxes among the first i of dets that survive exclusion:
\* the place of dets[i] among the survivors
Rank(dets, i) == Cardinality({k \in 1..i : ~ContainsAnchor(dets[k])})

\* the centre of dets[j] is farther from the cursor than the centre of
\* dets[i], in the distances the call computed: by the exact distances
\* where these differ, by the roundings of the two where they do not
Farther(dets, cur, fp, j, i) ==
    \/ CentreDistSq(dets[j], cur) > CentreDistSq(dets[i], cur)
    \/ /\ CentreDistSq(dets[j], cur) = CentreDistSq(dets[i], cur)
       /\ fp[Rank(dets, j)] > fp[Rank(dets, i)]

\* C3: when a box survives exclusion, select returns a surviving box nearest
\* to the cursor (centre distance), and among several at the minimum distance
\* the one earliest in the input list.  The distances are the ones the call
\* computes.
C3_NearestStableTie ==
    LET dets == sel_obs.detections
        cur == sel_obs.cursor
        farther(j, i) == Farther(dets, cur, sel_obs.fp, j, i)
    IN  (sel_obs.op = "select" /\ \E b \in Elems(dets) : ~ContainsAnchor(b)) =>
            \E i \in 1..Len(dets) :
                /\ ~ContainsAnchor(dets[i])
                /\ sel_obs.ret = Some(dets[i])
                /\ \A j \in 1..Len(dets) :
                       ~ContainsAnchor(dets[j]) => ~farther(i, j)
                /\ \A j \in 1..(i - 1) :
                       ~ContainsAnchor(dets[j]) => farther(j, i)

\* two different surviving boxes at the same, minimal distance: the first of
\* the list was returned
C3_Witness ==
    LET dets == sel_obs.detections
        cur == sel_obs.cursor
    IN  /\ sel_obs.op = "select" /\ Len(dets) >= 2
        /\ \E i \in 1..Len(dets), j \in 1..Len(dets) :
              /\ i < j /\ dets[i] # dets[j]
              /\ ~ContainsAnchor(dets[i]) /\ ~ContainsAnchor(dets[j])
              /\ CentreDistSq(dets[i], cur) = CentreDistSq(dets[j], cur)
              /\ sel_obs.fp[Rank(dets, i)] = sel_obs.fp[Rank(dets, j)]
              /\ sel_obs.ret = Some(dets[i])

\* C7: select on an empty list, or on a list whose every box is excluded,
\* returns None and leaves candidates empty and current_target None, whatever
\* an earlier call had stored.
C7_EmptyInput ==
    (sel_obs.op = "select"
        /\ \A b \in Elems(sel_obs.detections) : ContainsAnchor(b)) =>
            /\ sel_obs.ret = None
            /\ selector.candidates = <<>>
            /\ selector.current_target = None

\* a non-empty list with every box excluded, passed to a selector that held a
\* target from the call before
C7_Witness ==
    /\ sel_obs.op = "select" /\ sel_obs.hadTarget
    /\ sel_obs.detections # <<>>
    /\ \A b \in Elems(sel_obs.detections) : ContainsAnchor(b)
    /\ selector.current_target = None

\* the boxes of dets from index i on that do not contain the anchor, in order
RECURSIVE SurvivorsFrom(_, _)
SurvivorsFrom(dets, i) ==
    IF i > Len(dets) THEN <<>>
    ELSE IF ContainsAnchor(dets[i]) THEN SurvivorsFrom(dets, i + 1)
    ELSE <<dets[i]>> \o SurvivorsFrom(dets, i + 1)

\* C15: after every select call get_candidates() is exactly the subsequence
\* of that call's input list that survived exclusion, in input order, with
\* nothing carried over from earlier calls, and get_current_target() is the
\* value that call returned.
C15_SnapshotIsLatest ==
    /\ sel_obs.op = "select" =>
           /\ GetCandidates(selector).ret = SurvivorsFrom(sel_obs.detections, 1)
           /\ GetCurrentTarget(selector).ret = sel_obs.ret
    /\ sel_obs.op = "get_candidates" =>
           sel_obs.got = SurvivorsFrom(sel_obs.detections, 1)
    /\ sel_obs.op = "get_current_target" => sel_obs.got = sel_obs.ret

\* get_candidates() after a select that excluded the first of its two boxes
\* and had a target from an earlier call to overwrite
C15_Witness ==
    /\ sel_obs.op = "get_candidates" /\ sel_obs.hadTarget
    /\ Len(sel_obs.detections) = 2 /\ ContainsAnchor(sel_obs.detections[1])
    /\ sel_obs.got = <<sel_obs.detections[2]>>

\* C22: after any sequence of select calls, current_target is None if and
\* only if candidates is empty, and when it is not None it is an element of
\* candidates, hence a box of the most recent input list that does not
\* contain the anchor.
C22_StateConsistent ==
    /\ (selector.current_target = None) <=> (selector.candidates = <<>>)
    /\ selector.current_target # None =>
           /\ selector.current_target[1] \in Elems(selector.candidates)
           /\ selector.current_target[1] \in Elems(sel_obs.detections)
           /\ ~ContainsAnchor(selector.current_target[1])

\* a selector that held a target was given a non-empty list of boxes that
\* all contain the anchor: it holds no candidate and no target
C22_Witness ==
    /\ sel_obs.op = "select" /\ sel_obs.hadTarget
    /\ Len(sel_obs.detections) = 2
    /\ selector.candidates = <<>> /\ selector.current_target = None

----------------------------------------------------------------------------
(* Claims about two TargetSelector instances, checked under TwinSelSpec.   *)

\* the step is a call of get_candidates() or get_current_target()
GetterStep ==
    /\ sel_obs' # sel_obs
    /\ sel_obs'.op \in {"get_candidates", "get_current_target"}

\* C14: two selectors with different call histories (different stored
\* candidates and current target), given the same detection list and cursor,
\* return the same box and are left with the same candidates and current
\* target; get_candidates() and get_current_target() leave the selector as
\* it was.
C14_NoFeedback ==
    /\ [](twin_sel.paired =>
              /\ twin_sel.ret = twin_sel.other_ret
              /\ twin_sel.s = selector)
    /\ [][GetterStep => selector' = selector]_vars

\* the two selectors held different targets, were given the same list, and
\* returned the same box; a getter has been called since
C14_Witness ==
    /\ twin_sel.paired /\ twin_sel.differed
    /\ twin_sel.ret # None /\ sel_obs.hadTarget
    /\ sel_obs.op = "get_candidates" /\ Len(sel_obs.got) = 2

----------------------------------------------------------------------------
----------------------------------------------------------------------------
(* Claims about several engagements, checked under ToggleSpec.             *)

\* C6: whenever aim assist goes from disabled to enabled, the first compute
\* of the new engagement (the first whose "if self.aim_enabled and target"
\* test passed after the switch) reads prev_error = (0,0) and
\* prev_output = (0,0), under every interleaving of the listener thread with
\* the main loop.
C6_NoStaleHistory ==
    (pc_main = "commit" /\ frame.first) => ~frame.saw_history

----------------------------------------------------------------------------
(* Claims about the running system, checked under SystemSpec and           *)
(* ExitSpec.                                                               *)

\* the geometric centre (width / 2, height / 2) of the configured screen,
\* in 1/Q pixel
ConfiguredCentre ==
    <<config.screen_width \div 2, config.screen_height \div 2>>

\* C16: the anchor select uses for exclusion is the geometric centre of the
\* screen the system was configured with ((960,540) for 1920x1080), in every
\* select call of the session: after an iteration's select the candidates
\* are the iteration's screen detections that do not contain that centre.
C16_AnchorIsConfiguredCentre ==
    pc_main = "check" =>
        /\ \A b \in Elems(selector.candidates) :
               ~PointInBox(ConfiguredCentre[1], ConfiguredCentre[2], b)
        /\ \A b \in Elems(frame.screen_detections) :
               PointInBox(ConfiguredCentre[1], ConfiguredCentre[2], b)
                   => b \notin Elems(selector.candidates)

\* the mouse goes from p to q by a whole number of pixels on each axis,
\* each within half a pixel of the component of the vector v of doubles
MovedBy(p, q, v) ==
    \A i \in 1..2 :
        /\ (q[i] - p[i]) % Q = 0
        /\ XLeq(XAbs(XSub(XInt(2 * ((q[i] - p[i]) \div Q)),
                          XScale(Exact(v[i]), 1))),
                XInt(1))

\* C17: in every main-loop iteration select is called exactly once, on the
\* rescaled detections and the cursor position read in that iteration, and
\* before any compute; compute is called at most once, with that cursor
\* position (whole pixels, where the mouse stood when select was called)
\* and the centre of the box that select returned in that iteration; the
\* vector it returns is applied to the mouse exactly once before the next
\* iteration begins: the mouse moves once, by the whole pixels nearest to
\* that vector; nothing else moves it but the user's hand.
C17_PipelineOrder ==
    /\ [](/\ frame.selects <= 1 /\ frame.computes <= frame.selects
          /\ frame.moves <= frame.computes)
    /\ []((pc_main = "loop" /\ ticks > 0) =>
              (frame.selects = 1 /\ frame.moves = frame.computes))
    /\ [][frame'.selects = frame.selects + 1 =>
              /\ frame'.select_args =
                     <<ScreenDetections(frame.detections, config), mouse>>
              /\ frame'.cursor_pos = mouse
              /\ frame.computes = 0]_vars
    /\ [][frame'.computes = frame.computes + 1 =>
              /\ frame.selects = 1 /\ frame.target # None
              /\ frame'.compute_args[1] =
                     <<FromInt(frame.select_args[2][1] \div Q),
                       FromInt(frame.select_args[2][2] \div Q)>>
              /\ \E i \in 1..Len(frame.detections) :
                     /\ frame.select_args[1][i] = frame.target[1]
                     /\ frame'.compute_args[2] =
                            ScreenCenter(frame.detections[i], config)]_vars
    /\ [][frame'.moves = frame.moves + 1 =>
              /\ frame.computes = 1 /\ frame.result # None
              /\ MovedBy(mouse, mouse', frame.result[1].ret)]_vars
    /\ [][mouse' # mouse =>
              \/ frame'.moves = frame.moves + 1
              \/ ~frame.nudged /\ frame'.nudged]_vars

\* a second iteration has finished in which the user moved the mouse between
\* select and compute, and the computed vector was applied
C17_Witness ==
    /\ pc_main = "loop" /\ ticks = 2
    /\ frame.computes = 1 /\ frame.moves = 1 /\ frame.nudged
    /\ frame.moved # <<0, 0>>
    /\ frame.compute_args[1] # CursorPos(frame.moved_from)
    /\ mouse # frame.cursor_pos

\* shutdown() has run from its first statement to its last, and what it
\* closes is closed
ShutDown ==
    /\ life.entered = 1 /\ life.returned = 1
    /\ life.listener = "stopped" /\ life.capture = "closed"
    /\ life.overlay # "open" /\ life.logger = "closed"

\* once running is False it stays False, and the loop test that finds it
\* False starts no further iteration
NoFurtherIteration ==
    /\ [][~running => ~running']_vars
    /\ [][(~running /\ pc_main = "loop") => pc_main' # "detect"]_vars

Untouched ==
    /\ life.entered = 0 /\ life.listener = "running"
    /\ life.capture = "open" /\ life.logger = "open"

C20_NoMoveWhileDisabled ==
    /\ keys = 0 => ~aim_enabled
    /\ frame.moves = 1 => frame.enabled_at_move

----------------------------------------------------------------------------
(* Claims about one engagement, checked under EngagedSpec.                 *)

\* the outcome the iteration keeps is the outcome of compute on the
\* controller c with the iteration's arguments (dt = 1.0)
ResultOn(c) ==
    \E r \in Compute(c, frame.compute_args[1], frame.compute_args[2],
                     FromInt(1), libm) :
        frame.result = Kept(r)

\* C23: in an iteration whose "if self.aim_enabled and target" test fails
\* (aim assist disabled, or select returned no target) compute is not
\* called, the mouse is not moved and prev_error / prev_output keep their
\* values: only compute's own state update changes the controller.  So,
\* within one engagement, a compute that is not the engagement's first
\* (after a gap of target-less iterations, or on a different box) works on
\* the prev_error and prev_output the last compute left (it has read a
\* non-zero history exactly when that compute left one), not on a reset
\* controller.
C23_IdleTicksKeepHistory ==
    /\ [][(pc_main = "check" /\ pc_main' # "check"
              /\ (~aim_enabled \/ frame.target = None))
              => /\ pc_main' = "overlay"
                 /\ controller' = controller /\ mouse' = mouse
                 /\ frame' = frame]_vars
    /\ [][pc_main \notin {"compute", "dead_zone_y", "commit", "commit_error_y",
                          "commit_output_x", "commit_output_y"}
              => controller' = controller]_vars
    /\ []((pc_main = "overlay" /\ frame.computes = 0)
              => (frame.moves = 0 /\ frame.result = None))
    /\ []((pc_main = "commit" /\ ~frame.first)
              => /\ life.last_tick # "none"
                 /\ frame.saw_history = HasHistory(controller)
                 /\ ResultOn(controller))

\* the third iteration's compute, after a first iteration that computed
\* and a second that found no target, has read a non-zero history
C23_Witness ==
    /\ pc_main = "commit" /\ ticks = 2 /\ life.last_tick = "idle"
    /\ ~frame.first /\ frame.saw_history
    /\ frame.result[1].path = "active"
    /\ ~IsZero(controller.prev_output_x) /\ ~IsZero(controller.prev_error_x)
    /\ ~ResultOn(Reset(controller))

----------------------------------------------------------------------------
(* Claims about the closed loop, checked under LoopSpec.                   *)

\* the square of the distance from the point p to the target of the
\* simulation, exact
GapSq(p) ==
    XAdd(XSq(XSub(Exact(sim.target[1]), Exact(p[1]))),
         XSq(XSub(Exact(sim.target[2]), Exact(p[2]))))

\* a compute call at the place where the simulation stands returns
\* (0.0, 0.0) on the dead-zone path, and the cursor advanced by what it
\* returned stays where it is
AtRest ==
    \A r \in Compute(controller, sim.cursor, sim.target, FromInt(1), libm) :
        /\ r.path = "dead_zone" /\ IsZero(r.ret[1]) /\ IsZero(r.ret[2])
        /\ FAdd(sim.cursor[1], r.ret[1]) = sim.cursor[1]
        /\ FAdd(sim.cursor[2], r.ret[2]) = sim.cursor[2]
        /\ \A q \in Compute(r.state, sim.cursor, sim.target, FromInt(1),
                            r.libm) :
               q.path = "dead_zone" /\ IsZero(q.ret[1]) /\ IsZero(q.ret[2])

====
